---- MODULE Spec2Model ----
(***************************************************************************)
(* A model of the picture processing unit (src/src/ppu/mod.rs) and of the  *)
(* MMC3 mapper (src/src/mapper/mmc3.rs) of neso-rs.                        *)
(*                                                                         *)
(* The PPU's register file (ppu/registers.rs), the cartridge and the CPU   *)
(* are not among the sources: the register file is modelled from the       *)
(* specification where an operation needs it, the cartridge's pattern data *)
(* is an input, and a call to cpu.trigger_interrupt is recorded in op.     *)
(***************************************************************************)
EXTENDS Integers, Sequences, FiniteSets, TLC

VARIABLES
    \* Ppu (ppu/mod.rs:53-73)
    cycle, scanline, frame, buffer_index,
    primary_oam, secondary_oam, is_sprite_0, vram, palette_ram,
    \* Ppu.r, the PPU register file
    v_blank_started, sprite_0_hit, sprite_overflow,
    nmi_enabled, sprite_size, vram_address_increment,
    show_background, show_sprites, show_left_background, show_left_sprites,
    w, bus_address, read_buffer, last_written_byte, oam_addr,
    t,
    \* MMC3.r (the mapper's Registers), and the cartridge with its memories
    mapper_r, cartridge, chr_mem, prg_ram,
    \* MMC3.bus: whether a bus is attached (Option<Bus> is Some)
    bus,
    \* the two blobs the host holds from its last save_state call, and as an
    \* observer the registers and the PRG-RAM at that call
    saved,
    \* the abort a Rust panic causes ("none" while the program runs)
    fault,
    \* the last operation: its kind, arguments, result and raised interrupts
    op,
    \* observers: counter clocks since the last IRQ reload write, and
    \* PPUSTATUS reads since the last step that reached (241, 1)
    irq_watch, vblank_reads

ppuTiming == <<cycle, scanline, frame, buffer_index>>
ppuMemory == <<primary_oam, secondary_oam, is_sprite_0, vram, palette_ram>>
ppuStatus == <<v_blank_started, sprite_0_hit, sprite_overflow>>
ppuCtrl == <<nmi_enabled, sprite_size, vram_address_increment>>
ppuMask == <<show_background, show_sprites, show_left_background, show_left_sprites>>
ppuPort == <<w, t, bus_address, read_buffer, last_written_byte, oam_addr>>
mapperVars == <<mapper_r, cartridge, chr_mem, prg_ram, bus, saved>>
observers == <<irq_watch, vblank_reads>>
vars == <<ppuTiming, ppuMemory, ppuStatus, ppuCtrl, ppuMask, ppuPort,
          mapperVars, fault, op, observers>>

-----------------------------------------------------------------------------
(* Program constants *)

SCREEN_WIDTH == 256
SCREEN_HEIGHT == 240
\* the length of Ppu.buffer
BufferLen == SCREEN_WIDTH * SCREEN_HEIGHT * 4
\* step(): cycle wraps at 341, scanline at 262
CyclesPerScanline == 341
ScanlinesPerFrame == 262
\* step(): the scanline and cycle of the VBlank start and of its end
VBlankScanline == 241
PreRenderScanline == 261
\* MMC3::step clocks the IRQ counter at this cycle of a visible scanline
IrqClockCycle == 260

(* Bounds of the model *)

\* step() is not taken once frame has reached MaxFrame
MaxFrame == 2
\* the largest value written to the IRQ latch
MaxLatch == 2
\* the runner of the IRQ scenario stops at this scanline of the first frame
MaxIrqLines == 5
\* the fewest and the most sprites placed on one scanline
MinSprites == 8
MaxSprites == 9
\* the frames the sprite evaluation is run for
MaxSpriteFrames == 1
\* the sprite-0 scenario stops at this scanline of the first frame
MaxHitLines == 7

-----------------------------------------------------------------------------
(* Bytes and bits *)

Bit(val, k) == (val \div (2 ^ k)) % 2

\* An array whose entries are 0 unless written: the map holds the non-zero
\* entries only.
MemRead(m, i) == IF i \in DOMAIN m THEN m[i] ELSE 0

MemWrite(m, i, val) ==
    IF val = 0
    THEN [j \in DOMAIN m \ {i} |-> m[j]]
    ELSE [j \in DOMAIN m \cup {i} |-> IF j = i THEN val ELSE m[j]]

\* what draw_pixel computed at a dot: the two layers' pixels and the slot of
\* secondary OAM the sprite pixel came from (8: none)
NoPixel ==
    [drawn |-> FALSE, background_on |-> FALSE, sprite_on |-> FALSE, slot |-> 8,
     is_sprite_0 |-> FALSE, hit |-> FALSE, panics |-> FALSE]

NoOp ==
    [kind |-> "none", addr |-> 0, val |-> 0, ret |-> 0, nmi |-> FALSE, irq |-> FALSE,
     pixel |-> NoPixel, mem |-> "none"]

-----------------------------------------------------------------------------
(* Power-on state *)

\* Ppu::new: the palette RAM contents at power-on (entry i at position i + 1)
PowerOnPalette ==
    << 9, 1, 0, 1,   0, 2, 2, 13,   8, 16, 8, 36,   0, 0, 4, 44,
       9, 1, 52, 3,  0, 4, 0, 20,   8, 58, 0, 2,    0, 32, 44, 8 >>

\* Ppu::new: arrays at power-on
PpuNew ==
    /\ cycle = 0 /\ scanline = 0 /\ frame = 0 /\ buffer_index = 0
    /\ secondary_oam = [i \in 1..32 |-> 0]
    /\ is_sprite_0 = [i \in 1..8 |-> FALSE]
    /\ vram = << >>
    /\ palette_ram = PowerOnPalette

\* Registers::new of the PPU register file
PpuRegistersNew ==
    /\ v_blank_started = FALSE /\ sprite_0_hit = FALSE /\ sprite_overflow = FALSE
    /\ nmi_enabled = FALSE /\ sprite_size = <<8, 8>> /\ vram_address_increment = 1
    /\ show_background = FALSE /\ show_sprites = FALSE
    /\ show_left_background = FALSE /\ show_left_sprites = FALSE
    /\ w = FALSE /\ t = 0 /\ bus_address = 0 /\ read_buffer = 0
    /\ last_written_byte = 0 /\ oam_addr = 0

MirroringModes == {"Horizontal", "Vertical", "Lower", "Upper", "None"}

\* Registers::new of the mapper
RegistersNew ==
    [ mirroring_mode |-> "Vertical",
      prg_rom_bank_mode |-> "TwoSwitchTwoFix",
      chr_rom_bank_mode |-> "Two2KFour1K",
      prg_ram_writes_enabled |-> TRUE,
      prg_ram_enabled |-> TRUE,
      irq_latch |-> 0,
      irq_counter |-> 0,
      irq_enabled |-> FALSE,
      bank_data |-> [i \in 1..8 |-> 0],
      current_bank |-> 0 ]

\* no state saved yet
NoBlobs ==
    [taken |-> FALSE, mapper_data |-> << >>, save_data |-> << >>,
     r |-> RegistersNew, prg_ram |-> << >>]

\* MMC3::new, and attach_bus called by the owner before the first step
MapperRegistersNew == mapper_r = RegistersNew /\ bus = TRUE /\ saved = NoBlobs

\* a cartridge: its declared mirroring, whether its pattern memory is RAM, and
\* the number of 8 KiB banks of its PRG-ROM; its memories start zeroed
CartridgeNew(mirroring, chr_ram, banks) ==
    /\ cartridge = [mirroring_mode |-> mirroring, chr_ram |-> chr_ram,
                    prg_rom_banks |-> banks]
    /\ chr_mem = << >>
    /\ prg_ram = << >>

ObserversNew ==
    /\ fault = "none"
    /\ op = NoOp
    /\ irq_watch = [armed |-> FALSE, latch |-> 0, clocks |-> 0, fired |-> FALSE]
    /\ vblank_reads = -1

\* the fields Registers::write_ppu_ctrl and write_ppu_mask decode
CtrlNmiEnabled(val) == Bit(val, 7) = 1
CtrlSpriteSize(val) == IF Bit(val, 5) = 1 THEN <<8, 16>> ELSE <<8, 8>>
CtrlIncrement(val) == IF Bit(val, 2) = 1 THEN 32 ELSE 1
MaskBit(val, k) == Bit(val, k) = 1

\* the state after the host, at power-on and before the first step, has
\* filled primary OAM with `oam` through OAMDATA (oam_addr wraps back to 0) and
\* written `ctrl` to PPUCTRL and then `mask` to PPUMASK
PowerOnConfigured(oam, ctrl, mask) ==
    /\ PpuNew /\ MapperRegistersNew /\ ObserversNew
    /\ primary_oam = oam
    /\ v_blank_started = FALSE /\ sprite_0_hit = FALSE /\ sprite_overflow = FALSE
    /\ nmi_enabled = CtrlNmiEnabled(ctrl)
    /\ sprite_size = CtrlSpriteSize(ctrl)
    /\ vram_address_increment = CtrlIncrement(ctrl)
    /\ show_left_background = MaskBit(mask, 1) /\ show_left_sprites = MaskBit(mask, 2)
    /\ show_background = MaskBit(mask, 3) /\ show_sprites = MaskBit(mask, 4)
    /\ w = FALSE /\ t = (ctrl % 4) * 1024 /\ bus_address = 0 /\ read_buffer = 0
    /\ last_written_byte = mask /\ oam_addr = 0
    /\ CartridgeNew("Vertical", TRUE, 16)

PowerOn ==
    /\ PpuNew /\ PpuRegistersNew /\ MapperRegistersNew /\ ObserversNew
    /\ primary_oam = << >>
    /\ CartridgeNew("Vertical", TRUE, 16)

-----------------------------------------------------------------------------
(* Ppu::step, the timing *)

\* cycle += 1; if cycle == 341 { cycle = 0; ... }
NextCycle(c) == IF c + 1 = CyclesPerScanline THEN 0 ELSE c + 1

\* the scanline ends with this step
ScanlineWraps(c) == c + 1 = CyclesPerScanline

\* a mutant of NextScanline: the scanline wraps one line late
NextScanlineLate(c, s) ==
    IF ScanlineWraps(c)
    THEN (IF s = ScanlinesPerFrame THEN 0 ELSE s + 1)
    ELSE s

\* scanline += 1; if scanline == 262 { scanline = 0; ... }
NextScanline(c, s) ==
    IF ScanlineWraps(c)
    THEN (IF s + 1 = ScanlinesPerFrame THEN 0 ELSE s + 1)
    ELSE s

\* the frame ends with this step
FrameWraps(c, s) == ScanlineWraps(c) /\ s + 1 = ScanlinesPerFrame

\* frame += 1 at the wrap of the scanline
NextFrame(c, s, f) == IF FrameWraps(c, s) THEN f + 1 ELSE f

\* buffer_index = 0 at the wrap of the frame
BufferIndexAtDot(c, s, b) == IF FrameWraps(c, s) THEN 0 ELSE b

\* visible_scanline && visible_cycle, of the dot the step reaches
DrawsPixel(c, s) == s <= 239 /\ 1 <= c /\ c <= 256

\* self.buffer[self.buffer_index .. + 3] = ...: an index past the end panics
BufferWriteInBounds(b) == b + 3 < BufferLen

\* a mutant of VBlankStarts: the flag is set one cycle early
VBlankStartsEarly(c, s) == s = VBlankScanline /\ c = 0

\* if self.scanline == 241 && self.cycle == 1
VBlankStarts(c, s) == s = VBlankScanline /\ c = 1

\* a mutant of VBlankEnds: the flags are cleared one scanline early
VBlankEndsEarly(c, s) == s = PreRenderScanline - 1 /\ c = 1

\* if self.scanline == 261 && self.cycle == 1
VBlankEnds(c, s) == s = PreRenderScanline /\ c = 1

\* if self.cycle == 257, inside visible_scanline || self.scanline == 261
EvaluatesSprites(c, s) == (s <= 239 \/ s = PreRenderScanline) /\ c = 257

-----------------------------------------------------------------------------
(* Ppu::draw_pixel: the sprite and background pixels of the dot (c, s).    *)
(* The pattern bytes come from the cartridge and the tile shift register   *)
(* is filled from them, so whether a pixel is opaque is an input.          *)

SecondaryByte(slot, k) == secondary_oam[slot * 4 + k + 1]

\* let sprite_y = self.secondary_oam[i * 4].wrapping_add(1)
SpriteY(slot) == (SecondaryByte(slot, 0) + 1) % 256

\* if sprite_y & tile_index & attributes & sprite_x == 0xFF { break; }
SlotEndsScan(slot) ==
    /\ SpriteY(slot) = 255
    /\ SecondaryByte(slot, 1) = 255
    /\ SecondaryByte(slot, 2) = 255
    /\ SecondaryByte(slot, 3) = 255

\* sprite_x <= x && x <= sprite_x.saturating_add(7), and 1 <= sprite_y <= 239
SlotCoversDot(slot, x) ==
    LET sprite_x == SecondaryByte(slot, 3)
        right == IF sprite_x + 7 > 255 THEN 255 ELSE sprite_x + 7
    IN  /\ sprite_x <= x /\ x <= right
        /\ 1 <= SpriteY(slot) /\ SpriteY(slot) <= 239

\* let mut py = y - sprite_y, and py = self.r.sprite_size.1 - 1 - py under a
\* vertical flip: a u8 subtraction below zero panics in a debug build and
\* wraps in a release build
SpriteRowUnderflows(slot, y) ==
    \/ y < SpriteY(slot)
    \/ /\ Bit(SecondaryByte(slot, 2), 7) = 1
       /\ sprite_size[2] - 1 < y - SpriteY(slot)

NoSpritePixel == [opaque |-> FALSE, sprite0 |-> FALSE, panics |-> FALSE, slot |-> 8]

\* compute_sprite_pixel from slot `slot` on: the slot whose pixel is returned
\* is the first covering slot with a non-zero colour
RECURSIVE SpritePixelsFrom(_, _, _)
SpritePixelsFrom(slot, x, y) ==
    IF slot = 8 \/ SlotEndsScan(slot) THEN {NoSpritePixel}
    ELSE IF ~SlotCoversDot(slot, x) THEN SpritePixelsFrom(slot + 1, x, y)
    ELSE (IF SpriteRowUnderflows(slot, y)
          THEN {[opaque |-> FALSE, sprite0 |-> FALSE, panics |-> TRUE, slot |-> slot]}
          ELSE {})
         \cup {[opaque |-> TRUE, sprite0 |-> is_sprite_0[slot + 1], panics |-> FALSE,
                 slot |-> slot]}
         \cup SpritePixelsFrom(slot + 1, x, y)

\* compute_sprite_pixel at the dot (c, s)
SpritePixels(c, s) ==
    LET x == (c - 1) % 256
    IN  IF (x < 8 /\ ~show_left_sprites) \/ ~show_sprites
        THEN {NoSpritePixel}
        ELSE SpritePixelsFrom(0, x, s % 256)

\* compute_background_pixel at the dot (c, s): whether pixel & 0x03 != 0
BackgroundOn(c) ==
    LET x == (c - 1) % 256
    IN  IF (x < 8 /\ ~show_left_background) \/ ~show_background
        THEN {FALSE}
        ELSE BOOLEAN

\* a mutant of Sprite0Hits: the last column hits too
Sprite0HitsAnyCycle(c, background_on, pixel) ==
    background_on /\ pixel.opaque /\ pixel.sprite0

\* (true, true) => if self.cycle < 256 && is_sprite_0 { sprite_0_hit = true }
Sprite0Hits(c, background_on, pixel) ==
    background_on /\ pixel.opaque /\ c < 256 /\ pixel.sprite0

-----------------------------------------------------------------------------
(* Ppu::step, the sprite evaluation of cycle 257 *)

\* the sprite qualifies for the scanline after s
SpriteInRange(i, s) ==
    LET y == MemRead(primary_oam, i * 4) + 1
        lo == y
        hi == y + sprite_size[2] - 1
        curr == s + 1
    IN  ~(~(lo <= curr /\ curr <= hi) \/ y >= 241)

\* if secondary_oam_index < 0x20
SecondaryHasRoom(index) == index < 32

\* a mutant of OverflowCounts: the background alone does not count
OverflowCountsSpritesOnly == show_sprites

\* else if self.r.show_sprites || self.r.show_background
OverflowCounts == show_sprites \/ show_background

\* the first sprite from i on that the loop does not skip (64: none)
NextInRange(i, s) ==
    LET rest == {j \in i..63 : SpriteInRange(j, s)}
    IN  IF rest = {} THEN 64 ELSE CHOOSE j \in rest : \A k \in rest : j <= k

\* for i in 0..64 { ... }, from sprite i on; once secondary OAM is full every
\* further sprite in range takes the same branch
RECURSIVE EvaluateFrom(_, _, _)
EvaluateFrom(i, s, st) ==
    LET n == NextInRange(i, s)
    IN  IF n = 64 THEN st
        ELSE IF SecondaryHasRoom(st.index)
        THEN EvaluateFrom(n + 1, s,
                [st EXCEPT
                    !.oam = [k \in 1..32 |->
                                IF k \in (st.index + 1)..(st.index + 4)
                                THEN MemRead(primary_oam, n * 4 + (k - st.index - 1))
                                ELSE st.oam[k]],
                    !.sprite0 = [k \in 1..8 |->
                                IF k = (st.index \div 4) + 1 THEN n = 0 ELSE st.sprite0[k]],
                    !.index = st.index + 4])
        ELSE IF OverflowCounts THEN [st EXCEPT !.overflow = TRUE]
        ELSE st

\* the whole evaluation: secondary OAM is cleared to 0xFF first
EvaluateSprites(s) ==
    EvaluateFrom(0, s,
        [oam |-> [k \in 1..32 |-> 255], sprite0 |-> is_sprite_0,
         index |-> 0, overflow |-> sprite_overflow])

-----------------------------------------------------------------------------
(* Ppu::step *)

\* what draw_pixel can do at the dot (c, s): set sprite_0_hit, or panic in the
\* sprite row computation
PixelOutcomes(c, s) ==
    { [drawn |-> TRUE, background_on |-> bg, sprite_on |-> px.opaque, slot |-> px.slot,
       is_sprite_0 |-> px.sprite0, hit |-> Sprite0Hits(c, bg, px), panics |-> px.panics] :
        bg \in BackgroundOn(c), px \in SpritePixels(c, s) }

\* what the step that reaches the dot (c, s) can compute there
DotOutcomes(c, s) == IF DrawsPixel(c, s) THEN PixelOutcomes(c, s) ELSE {NoPixel}

\* one dot of the PPU, draw_pixel computing o; a panic leaves the state as it
\* was when it struck
PpuDot(o) ==
    LET c == NextCycle(cycle)
        s == NextScanline(cycle, scanline)
        b == BufferIndexAtDot(cycle, scanline, buffer_index)
        evaluated == EvaluateSprites(s)
        Halt(name, hit) ==
            /\ fault' = name
            /\ buffer_index' = b
            /\ sprite_0_hit' = (sprite_0_hit \/ hit)
            /\ UNCHANGED <<secondary_oam, is_sprite_0, sprite_overflow,
                           v_blank_started, vblank_reads>>
        Rest(hit) ==
            /\ fault' = fault
            /\ buffer_index' = IF DrawsPixel(c, s) THEN b + 4 ELSE b
            /\ secondary_oam' = IF EvaluatesSprites(c, s) THEN evaluated.oam
                                ELSE secondary_oam
            /\ is_sprite_0' = IF EvaluatesSprites(c, s) THEN evaluated.sprite0
                              ELSE is_sprite_0
            /\ v_blank_started' = IF VBlankEnds(c, s) THEN FALSE
                                  ELSE IF VBlankStarts(c, s) THEN TRUE
                                  ELSE v_blank_started
            /\ sprite_0_hit' = IF VBlankEnds(c, s) THEN FALSE
                               ELSE (sprite_0_hit \/ hit)
            /\ sprite_overflow' = IF VBlankEnds(c, s) THEN FALSE
                                  ELSE IF EvaluatesSprites(c, s) THEN evaluated.overflow
                                  ELSE sprite_overflow
            /\ vblank_reads' = IF VBlankStarts(c, s) THEN 0 ELSE vblank_reads
    IN  /\ fault = "none"
        /\ frame < MaxFrame
        /\ cycle' = c
        /\ scanline' = s
        /\ frame' = NextFrame(cycle, scanline, frame)
        /\ o \in DotOutcomes(c, s)
        /\ IF DrawsPixel(c, s)
           THEN IF o.panics THEN Halt("sprite_row", FALSE)
                ELSE IF ~BufferWriteInBounds(b) THEN Halt("buffer_index", o.hit)
                ELSE Rest(o.hit)
           ELSE Rest(FALSE)
        /\ UNCHANGED <<primary_oam, vram, palette_ram, ppuCtrl, ppuMask, ppuPort>>

\* the pixels draw_pixel can compute at the dot the next step reaches
NextDotOutcomes == DotOutcomes(NextCycle(cycle), NextScanline(cycle, scanline))

PpuStepCore == \E o \in NextDotOutcomes : PpuDot(o)

\* if self.r.nmi_enabled { cpu.trigger_interrupt(Interrupt::NMI) }
\* a mutant of StepRaisesNmi: nmi_enabled is not consulted
StepRaisesNmiAlways == fault' = "none" /\ VBlankStarts(cycle', scanline')

StepRaisesNmi == fault' = "none" /\ VBlankStarts(cycle', scanline') /\ nmi_enabled

PpuStep ==
    \E o \in NextDotOutcomes :
        /\ PpuDot(o)
        /\ op' = [NoOp EXCEPT !.kind = "step", !.nmi = StepRaisesNmi, !.pixel = o]
        /\ UNCHANGED <<mapperVars, irq_watch>>

-----------------------------------------------------------------------------
(* Ppu::reset *)

\* Registers::write_ppu_ctrl: bits 0-1 of the value select the nametable in
\* bits 10-11 of t
CtrlNametableBits(tt, val) ==
    (tt % 1024) + (val % 4) * 1024 + (tt \div 4096) * 4096

\* the dots at which the host resets the PPU
ResetDots == { <<0, 0>>, <<120, 0>>, <<241, 1>> }

\* initialize() writes 0 to PPUCTRL and PPUMASK; oam_addr, cycle, scanline and
\* frame are cleared; nothing else is
Reset ==
    /\ fault = "none"
    /\ <<scanline, cycle>> \in ResetDots
    /\ nmi_enabled' = FALSE /\ sprite_size' = <<8, 8>> /\ vram_address_increment' = 1
    /\ show_background' = FALSE /\ show_sprites' = FALSE
    /\ show_left_background' = FALSE /\ show_left_sprites' = FALSE
    /\ t' = CtrlNametableBits(t, 0)
    /\ oam_addr' = 0
    /\ cycle' = 0 /\ scanline' = 0 /\ frame' = 0
    /\ op' = [NoOp EXCEPT !.kind = "reset"]
    /\ UNCHANGED <<buffer_index, ppuMemory, ppuStatus, w, bus_address, read_buffer,
                   last_written_byte, mapperVars, fault, observers>>

-----------------------------------------------------------------------------
(* The MMC3 mapper *)

\* a mutant of GetChrRomAddress: a 2 KiB window keeps the low bit of its bank
\* register
GetChrRomAddressRawBank(addr) ==
    LET bank(k) == mapper_r.bank_data[k + 1]
    IN  IF mapper_r.chr_rom_bank_mode = "Two2KFour1K"
        THEN CASE addr <= \h07FF -> bank(0) * \h400 + addr
               [] addr <= \h0FFF -> bank(1) * \h400 + addr - \h0800
               [] addr <= \h13FF -> bank(2) * \h400 + addr - \h1000
               [] addr <= \h17FF -> bank(3) * \h400 + addr - \h1400
               [] addr <= \h1BFF -> bank(4) * \h400 + addr - \h1800
               [] OTHER -> bank(5) * \h400 + addr - \h1C00
        ELSE CASE addr <= \h03FF -> bank(2) * \h400 + addr
               [] addr <= \h07FF -> bank(3) * \h400 + addr - \h0400
               [] addr <= \h0BFF -> bank(4) * \h400 + addr - \h0800
               [] addr <= \h0FFF -> bank(5) * \h400 + addr - \h0C00
               [] addr <= \h17FF -> bank(0) * \h400 + addr - \h1000
               [] OTHER -> bank(1) * \h400 + addr - \h1800

\* get_chr_rom_address: a 2 KiB window drops the low bit of its bank register
GetChrRomAddress(addr) ==
    LET bank(k) == mapper_r.bank_data[k + 1]
        even(k) == bank(k) - (bank(k) % 2)
    IN  IF mapper_r.chr_rom_bank_mode = "Two2KFour1K"
        THEN CASE addr <= \h07FF -> even(0) * \h400 + addr
               [] addr <= \h0FFF -> even(1) * \h400 + addr - \h0800
               [] addr <= \h13FF -> bank(2) * \h400 + addr - \h1000
               [] addr <= \h17FF -> bank(3) * \h400 + addr - \h1400
               [] addr <= \h1BFF -> bank(4) * \h400 + addr - \h1800
               [] OTHER -> bank(5) * \h400 + addr - \h1C00
        ELSE CASE addr <= \h03FF -> bank(2) * \h400 + addr
               [] addr <= \h07FF -> bank(3) * \h400 + addr - \h0400
               [] addr <= \h0BFF -> bank(4) * \h400 + addr - \h0800
               [] addr <= \h0FFF -> bank(5) * \h400 + addr - \h0C00
               [] addr <= \h17FF -> even(0) * \h400 + addr - \h1000
               [] OTHER -> even(1) * \h400 + addr - \h1800

\* Mapper::read_byte on the pattern range
MapperReadChr(addr) == MemRead(chr_mem, GetChrRomAddress(addr))

\* a mutant of MapperMirroringMode: the cartridge's declaration is ignored
MapperMirroringModeRegister == mapper_r.mirroring_mode

\* Mapper::mirroring_mode: a four-screen cartridge overrides the register
MapperMirroringMode ==
    IF cartridge.mirroring_mode = "None" THEN "None" ELSE mapper_r.mirroring_mode

\* a mutant of BankSelectIndex: the written value is not masked
BankSelectIndexUnmasked(val) == val

\* write_bank_select: the bank register the next bank-data write stores into
BankSelectIndex(val) == val % 8

\* write_bank_data indexes bank_data, an array of 8, with current_bank
BankDataWriteAborts(addr) ==
    /\ addr >= \h8000 /\ addr <= \h9FFF /\ addr % 2 = 1
    /\ mapper_r.current_bank \notin 0..7

\* a mutant of MapperWriteRegisters: the reload write also disables the IRQ
MapperWriteRegistersReloadDisables(addr, val) ==
    LET even == addr % 2 = 0
    IN  CASE addr >= \h8000 /\ addr <= \h9FFF /\ even ->
                [mapper_r EXCEPT
                    !.prg_rom_bank_mode = IF Bit(val, 6) = 0 THEN "TwoSwitchTwoFix"
                                          ELSE "FixTwoSwitchFix",
                    !.chr_rom_bank_mode = IF Bit(val, 7) = 0 THEN "Two2KFour1K"
                                          ELSE "Four1KTwo2K",
                    !.current_bank = BankSelectIndex(val)]
          [] addr >= \h8000 /\ addr <= \h9FFF /\ ~even ->
                [mapper_r EXCEPT !.bank_data[mapper_r.current_bank + 1] = val]
          [] addr >= \hA000 /\ addr <= \hBFFF /\ even ->
                [mapper_r EXCEPT
                    !.mirroring_mode = IF val % 2 = 0 THEN "Vertical" ELSE "Horizontal"]
          [] addr >= \hA000 /\ addr <= \hBFFF /\ ~even ->
                [mapper_r EXCEPT
                    !.prg_ram_writes_enabled = Bit(val, 6) = 0,
                    !.prg_ram_enabled = Bit(val, 7) = 1]
          [] addr >= \hC000 /\ addr <= \hDFFF /\ even ->
                [mapper_r EXCEPT !.irq_latch = val]
          [] addr >= \hC000 /\ addr <= \hDFFF /\ ~even ->
                [mapper_r EXCEPT !.irq_counter = mapper_r.irq_latch,
                                 !.irq_enabled = FALSE]
          [] addr >= \hE000 /\ addr <= \hFFFF /\ even ->
                [mapper_r EXCEPT !.irq_enabled = FALSE]
          [] addr >= \hE000 /\ addr <= \hFFFF /\ ~even ->
                [mapper_r EXCEPT !.irq_enabled = TRUE]
          [] OTHER -> mapper_r

\* write_bank_select, write_bank_data, write_mirroring_mode,
\* write_prg_ram_protect and the IRQ registers: the register file after
\* write_byte(addr, val) on 0x8000-0xFFFF
MapperWriteRegisters(addr, val) ==
    LET even == addr % 2 = 0
    IN  CASE addr >= \h8000 /\ addr <= \h9FFF /\ even ->
                [mapper_r EXCEPT
                    !.prg_rom_bank_mode = IF Bit(val, 6) = 0 THEN "TwoSwitchTwoFix"
                                          ELSE "FixTwoSwitchFix",
                    !.chr_rom_bank_mode = IF Bit(val, 7) = 0 THEN "Two2KFour1K"
                                          ELSE "Four1KTwo2K",
                    !.current_bank = BankSelectIndex(val)]
          [] addr >= \h8000 /\ addr <= \h9FFF /\ ~even ->
                [mapper_r EXCEPT !.bank_data[mapper_r.current_bank + 1] = val]
          [] addr >= \hA000 /\ addr <= \hBFFF /\ even ->
                [mapper_r EXCEPT
                    !.mirroring_mode = IF val % 2 = 0 THEN "Vertical" ELSE "Horizontal"]
          [] addr >= \hA000 /\ addr <= \hBFFF /\ ~even ->
                [mapper_r EXCEPT
                    !.prg_ram_writes_enabled = Bit(val, 6) = 0,
                    !.prg_ram_enabled = Bit(val, 7) = 1]
          [] addr >= \hC000 /\ addr <= \hDFFF /\ even ->
                [mapper_r EXCEPT !.irq_latch = val]
          [] addr >= \hC000 /\ addr <= \hDFFF /\ ~even ->
                [mapper_r EXCEPT !.irq_counter = mapper_r.irq_latch]
          [] addr >= \hE000 /\ addr <= \hFFFF /\ even ->
                [mapper_r EXCEPT !.irq_enabled = FALSE]
          [] addr >= \hE000 /\ addr <= \hFFFF /\ ~even ->
                [mapper_r EXCEPT !.irq_enabled = TRUE]
          [] OTHER -> mapper_r

IsIrqReload(addr) == addr >= \hC000 /\ addr <= \hDFFF /\ addr % 2 = 1
IsIrqEnable(addr) == addr >= \hE000 /\ addr <= \hFFFF /\ addr % 2 = 1
IsIrqRegister(addr) == addr >= \hC000 /\ addr <= \hFFFF

\* the scenario a reload write opens: the latch at the write, the counter
\* clocks since, and whether an interrupt was raised; a later write to the
\* latch or a disable closes it, as does an enable after the first clock
WatchAfterWrite(addr) ==
    IF IsIrqReload(addr)
    THEN [armed |-> TRUE, latch |-> mapper_r.irq_latch, clocks |-> 0, fired |-> FALSE]
    ELSE IF IsIrqEnable(addr) /\ (irq_watch.clocks = 0 \/ mapper_r.irq_enabled)
    THEN irq_watch
    ELSE IF IsIrqRegister(addr)
    THEN [irq_watch EXCEPT !.armed = FALSE]
    ELSE irq_watch

\* Mapper::write_byte: pattern memory when it is RAM, PRG-RAM when writes are
\* enabled, the registers on 0x8000-0xFFFF
MapperWriteByte(addr, val) ==
    /\ fault = "none"
    /\ chr_mem' = IF addr <= \h1FFF /\ cartridge.chr_ram
                  THEN MemWrite(chr_mem, GetChrRomAddress(addr), val)
                  ELSE chr_mem
    /\ prg_ram' = IF addr >= \h6000 /\ addr <= \h7FFF /\ mapper_r.prg_ram_writes_enabled
                  THEN MemWrite(prg_ram, addr - \h6000, val)
                  ELSE prg_ram
    /\ mapper_r' = IF addr >= \h8000 /\ ~BankDataWriteAborts(addr)
                   THEN MapperWriteRegisters(addr, val)
                   ELSE mapper_r
    /\ fault' = IF BankDataWriteAborts(addr) THEN "bank_data_index" ELSE fault
    /\ irq_watch' = WatchAfterWrite(addr)
    /\ op' = [NoOp EXCEPT !.kind = "mapper_write", !.addr = addr, !.val = val]
    /\ UNCHANGED <<cartridge, bus, saved, ppuTiming, ppuMemory, ppuStatus, ppuCtrl, ppuMask,
                   ppuPort, vblank_reads>>

\* a mutant of GetPrgRomAddress: the PRG bank mode is ignored
GetPrgRomAddressOneMode(addr, prg_rom_banks) ==
    LET bank(k) == mapper_r.bank_data[k + 1]
    IN  CASE addr <= \h9FFF -> bank(6) * \h2000 + addr - \h8000
          [] addr <= \hBFFF -> bank(7) * \h2000 + addr - \hA000
          [] addr <= \hDFFF -> (prg_rom_banks - 2) * \h2000 + addr - \hC000
          [] OTHER -> (prg_rom_banks - 1) * \h2000 + addr - \hE000

\* get_prg_rom_address, for addr in 0x8000-0xFFFF
GetPrgRomAddress(addr, prg_rom_banks) ==
    LET bank(k) == mapper_r.bank_data[k + 1]
    IN  IF mapper_r.prg_rom_bank_mode = "TwoSwitchTwoFix"
        THEN CASE addr <= \h9FFF -> bank(6) * \h2000 + addr - \h8000
               [] addr <= \hBFFF -> bank(7) * \h2000 + addr - \hA000
               [] addr <= \hDFFF -> (prg_rom_banks - 2) * \h2000 + addr - \hC000
               [] OTHER -> (prg_rom_banks - 1) * \h2000 + addr - \hE000
        ELSE CASE addr <= \h9FFF -> (prg_rom_banks - 2) * \h2000 + addr - \h8000
               [] addr <= \hBFFF -> bank(7) * \h2000 + addr - \hA000
               [] addr <= \hDFFF -> bank(6) * \h2000 + addr - \hC000
               [] OTHER -> (prg_rom_banks - 1) * \h2000 + addr - \hE000

\* Cartridge::read_prg_rom on the PRG-ROM image: the byte at an offset names
\* the 8 KiB bank the offset lies in and the low four bits of the offset
CartridgeReadPrgRom(off) == ((off \div \h2000) * 16 + (off % 16)) % 256

\* a mutant of PrgRamReadable: PRG-RAM reads ignore the enable flag
PrgRamReadableAlways(addr) == addr >= \h6000 /\ addr <= \h7FFF

\* the guard of the PRG-RAM arm of read_byte
PrgRamReadable(addr) == addr >= \h6000 /\ addr <= \h7FFF /\ mapper_r.prg_ram_enabled

\* Mapper::read_byte: the memory it reads, the offset it reads at, and the
\* byte it returns; an address no arm takes returns 0
MapperReadAccess(addr) ==
    CASE addr <= \h1FFF ->
            [mem |-> "chr", off |-> GetChrRomAddress(addr), ret |-> MapperReadChr(addr)]
      [] PrgRamReadable(addr) ->
            [mem |-> "prg_ram", off |-> addr - \h6000,
             ret |-> MemRead(prg_ram, addr - \h6000)]
      [] addr >= \h8000 /\ addr <= \hFFFF ->
            LET off == GetPrgRomAddress(addr, cartridge.prg_rom_banks)
            IN  [mem |-> "prg_rom", off |-> off, ret |-> CartridgeReadPrgRom(off)]
      [] OTHER -> [mem |-> "none", off |-> 0, ret |-> 0]

MapperReadByte(addr) ==
    /\ fault = "none"
    /\ LET a == MapperReadAccess(addr)
       IN  op' = [NoOp EXCEPT !.kind = "mapper_read", !.addr = addr, !.mem = a.mem,
                             !.val = a.off, !.ret = a.ret]
    /\ UNCHANGED <<mapperVars, ppuTiming, ppuMemory, ppuStatus, ppuCtrl, ppuMask,
                   ppuPort, fault, observers>>

\* Mapper::step: the counter is clocked at cycle 260 of a visible scanline
\* while rendering is enabled
\* a mutant of IrqClocked: the mask of the PPU is not consulted
IrqClockedAnyMask(c, s, rendering) == ~(c # IrqClockCycle \/ s >= SCREEN_HEIGHT)

IrqClocked(c, s, rendering) == ~(c # IrqClockCycle \/ s >= SCREEN_HEIGHT \/ ~rendering)

IrqCounterAfterClock(r) == IF r.irq_counter = 0 THEN r.irq_latch ELSE r.irq_counter - 1

\* a mutant of MapperStepRaisesIrq: irq_enabled is not consulted
MapperStepRaisesIrqAlways(c, s, rendering) ==
    /\ IrqClocked(c, s, rendering)
    /\ mapper_r.irq_counter # 0
    /\ IrqCounterAfterClock(mapper_r) = 0

MapperStepRaisesIrq(c, s, rendering) ==
    /\ IrqClocked(c, s, rendering)
    /\ mapper_r.irq_counter # 0
    /\ IrqCounterAfterClock(mapper_r) = 0
    /\ mapper_r.irq_enabled

MapperStep(c, s, rendering) ==
    /\ mapper_r' = IF IrqClocked(c, s, rendering)
                   THEN [mapper_r EXCEPT !.irq_counter = IrqCounterAfterClock(mapper_r)]
                   ELSE mapper_r
    /\ UNCHANGED <<cartridge, chr_mem, prg_ram, bus, saved>>

\* Mapper::step called by its owner: self.bus() aborts when no bus is
\* attached, before anything else is done; otherwise the step works on the
\* position and the mask of the PPU on the bus
MapperStepOnBus ==
    /\ fault = "none"
    /\ IF bus
       THEN /\ MapperStep(cycle, scanline, show_sprites \/ show_background)
            /\ op' = [NoOp EXCEPT !.kind = "mapper_step",
                         !.irq = MapperStepRaisesIrq(cycle, scanline,
                                                     show_sprites \/ show_background)]
            /\ UNCHANGED fault
       ELSE /\ fault' = "no_bus"
            /\ op' = [NoOp EXCEPT !.kind = "mapper_step"]
            /\ UNCHANGED mapperVars
    /\ UNCHANGED <<ppuTiming, ppuMemory, ppuStatus, ppuCtrl, ppuMask, ppuPort, observers>>

-----------------------------------------------------------------------------
(* PPU memory: Ppu::read_byte and Ppu::write_byte *)

\* a mutant of MirroringModeNumber: Horizontal and Vertical exchanged
MirroringModeNumberSwapped(mode) ==
    CASE mode = "Horizontal" -> 1 [] mode = "Vertical" -> 0
      [] mode = "Lower" -> 2 [] mode = "Upper" -> 3 [] OTHER -> 4

\* MirroringMode as usize
MirroringModeNumber(mode) ==
    CASE mode = "Horizontal" -> 0 [] mode = "Vertical" -> 1
      [] mode = "Lower" -> 2 [] mode = "Upper" -> 3 [] OTHER -> 4

MIRRORING_MODE_TABLE ==
    << 0, 0, 1, 1,
       0, 1, 0, 1,
       0, 0, 0, 0,
       1, 1, 1, 1,
       0, 1, 2, 3 >>

\* the cell of vram behind a nametable address 0x2000-0x3EFF
NametableCell(addr) ==
    LET a == (addr - \h2000) % \h1000
        index == a \div \h0400
        offset == a % \h0400
        mode == MirroringModeNumber(MapperMirroringMode)
    IN  MIRRORING_MODE_TABLE[mode * 4 + index + 1] * \h0400 + offset

\* a mutant of PaletteModulus: no fold of the fourth entries
PaletteModulusFlat(addr) == \h20

\* let modulus = if addr % 0x04 == 0 { 0x10 } else { 0x20 }
PaletteModulus(addr) == IF addr % 4 = 0 THEN \h10 ELSE \h20

\* the entry of palette_ram behind a palette address 0x3F00-0x3FFF
PaletteCell(addr) == (addr - \h3F00) % PaletteModulus(addr)

ValidPpuAddress(addr) == addr >= 0 /\ addr <= \h3FFF

ReadByte(addr) ==
    CASE addr <= \h1FFF -> MapperReadChr(addr)
      [] addr <= \h3EFF -> MemRead(vram, NametableCell(addr))
      [] OTHER -> palette_ram[PaletteCell(addr) + 1]

\* the memories after write_byte(addr, val)
WriteByteCore(addr, val) ==
    /\ chr_mem' = IF addr <= \h1FFF /\ cartridge.chr_ram
                  THEN MemWrite(chr_mem, GetChrRomAddress(addr), val)
                  ELSE chr_mem
    /\ vram' = IF addr >= \h2000 /\ addr <= \h3EFF
               THEN MemWrite(vram, NametableCell(addr), val)
               ELSE vram
    /\ palette_ram' = IF addr >= \h3F00
                      THEN [palette_ram EXCEPT ![PaletteCell(addr) + 1] = val]
                      ELSE palette_ram

\* write_byte called by the host; an address above 0x3FFF panics
WriteByte(addr, val) ==
    /\ fault = "none"
    /\ IF ValidPpuAddress(addr)
       THEN WriteByteCore(addr, val) /\ fault' = fault
       ELSE fault' = "invalid_address" /\ UNCHANGED <<chr_mem, vram, palette_ram>>
    /\ op' = [NoOp EXCEPT !.kind = "write_byte", !.addr = addr, !.val = val]
    /\ UNCHANGED <<mapper_r, cartridge, prg_ram, bus, saved, ppuTiming, primary_oam, secondary_oam,
                   is_sprite_0, ppuStatus, ppuCtrl, ppuMask, ppuPort, observers>>

-----------------------------------------------------------------------------
(* Background fetches: Ppu::fetch_attribute_table_byte *)

\* the operators &, | and >> on u16
BitAnd(a, b) == LET S == {k \in 0..15 : Bit(a, k) = 1 /\ Bit(b, k) = 1}
                    sum[k \in 0..16] == IF k = 16 THEN 0
                                        ELSE (IF k \in S THEN 2 ^ k ELSE 0) + sum[k + 1]
                IN  sum[0]

BitOr(a, b) == LET S == {k \in 0..15 : Bit(a, k) = 1 \/ Bit(b, k) = 1}
                   sum[k \in 0..16] == IF k = 16 THEN 0
                                       ELSE (IF k \in S THEN 2 ^ k ELSE 0) + sum[k + 1]
               IN  sum[0]

ShiftRight(a, n) == a \div (2 ^ n)

ShiftLeft(a, n) == (a * (2 ^ n)) % 65536

\* a mutant of AttributeAddress: coarse_y taken two bits too low
AttributeAddressLowY(v) ==
    LET coarse_x == ShiftRight(v, 2)
        coarse_y == ShiftRight(v, 5)
    IN  BitOr(BitOr(BitOr(\h23C0, BitAnd(v, \h0C00)), BitAnd(coarse_x, \h07)),
              ShiftLeft(BitAnd(coarse_y, \h07), 3))

\* 0x23C0 | (v & 0x0C00) | (coarse_x & 0x07) | ((coarse_y & 0x07) << 3)
AttributeAddress(v) ==
    LET coarse_x == ShiftRight(v, 2)
        coarse_y == ShiftRight(v, 7)
    IN  BitOr(BitOr(BitOr(\h23C0, BitAnd(v, \h0C00)), BitAnd(coarse_x, \h07)),
              ShiftLeft(BitAnd(coarse_y, \h07), 3))

\* let offset = (v & 0x02) | ((v & 0x40) >> 4)
AttributeOffset(v) == BitOr(BitAnd(v, \h02), ShiftRight(BitAnd(v, \h40), 4))

\* (attribute_table_byte >> offset) & 0x03
AttributePalette(byte, v) == BitAnd(ShiftRight(byte, AttributeOffset(v)), \h03)

\* fetch_attribute_table_byte with the VRAM address v: the address it reads
\* and the palette it leaves in the register file
FetchAttributeTableByte(v) ==
    /\ fault = "none"
    /\ op' = [NoOp EXCEPT !.kind = "fetch_attribute", !.val = v,
                          !.addr = AttributeAddress(v),
                          !.ret = AttributePalette(ReadByte(AttributeAddress(v)), v)]
    /\ UNCHANGED <<mapperVars, ppuTiming, ppuMemory, ppuStatus, ppuCtrl, ppuMask,
                   ppuPort, fault, observers>>

-----------------------------------------------------------------------------
(* The register window: Ppu::write_register and Ppu::read_register *)

\* Registers::write_ppu_ctrl
WritePpuCtrl(val) ==
    /\ nmi_enabled' = CtrlNmiEnabled(val)
    /\ sprite_size' = CtrlSpriteSize(val)
    /\ vram_address_increment' = CtrlIncrement(val)
    /\ t' = CtrlNametableBits(t, val)

\* Registers::write_ppu_mask
WritePpuMask(val) ==
    /\ show_left_background' = MaskBit(val, 1)
    /\ show_left_sprites' = MaskBit(val, 2)
    /\ show_background' = MaskBit(val, 3)
    /\ show_sprites' = MaskBit(val, 4)

\* Registers::write_ppu_scroll: the first write sets coarse X in t, the second
\* fine Y and coarse Y
ScrollBits(tt, val, second) ==
    IF ~second
    THEN (tt \div 32) * 32 + (val \div 8)
    ELSE LET coarse_x == tt % 32
             nametable == (tt \div 1024) % 4
         IN  coarse_x + ((val \div 8) % 32) * 32 + nametable * 1024 + (val % 8) * 4096

\* Registers::write_ppu_addr: the first write sets bits 8-13 of t and clears
\* bit 14, the second sets the low byte and copies t to the bus address
AddrBits(tt, val, second) ==
    IF ~second
    THEN (val % 64) * 256 + (tt % 256)
    ELSE (tt \div 256) * 256 + val

\* the PPUDATA write: write_byte(bus_address, val), then the increment
WritePpuData(val) ==
    IF ValidPpuAddress(bus_address)
    THEN /\ WriteByteCore(bus_address, val)
         /\ bus_address' = bus_address + vram_address_increment
         /\ fault' = fault
    ELSE /\ fault' = "invalid_address"
         /\ UNCHANGED <<chr_mem, vram, palette_ram, bus_address>>

WriteRegister(addr, val) ==
    /\ fault = "none"
    /\ last_written_byte' = val
    /\ CASE addr = \h2000 ->
                /\ WritePpuCtrl(val)
                /\ UNCHANGED <<ppuMask, oam_addr, primary_oam, w, bus_address,
                               chr_mem, vram, palette_ram, fault>>
         [] addr = \h2001 ->
                /\ WritePpuMask(val)
                /\ UNCHANGED <<ppuCtrl, t, oam_addr, primary_oam, w, bus_address,
                               chr_mem, vram, palette_ram, fault>>
         [] addr = \h2002 ->
                UNCHANGED <<ppuCtrl, ppuMask, t, oam_addr, primary_oam, w, bus_address,
                            chr_mem, vram, palette_ram, fault>>
         [] addr = \h2003 ->
                /\ oam_addr' = val
                /\ UNCHANGED <<ppuCtrl, ppuMask, t, primary_oam, w, bus_address,
                               chr_mem, vram, palette_ram, fault>>
         [] addr = \h2004 ->
                /\ primary_oam' = MemWrite(primary_oam, oam_addr, val)
                /\ oam_addr' = (oam_addr + 1) % 256
                /\ UNCHANGED <<ppuCtrl, ppuMask, t, w, bus_address,
                               chr_mem, vram, palette_ram, fault>>
         [] addr = \h2005 ->
                /\ t' = ScrollBits(t, val, w)
                /\ w' = ~w
                /\ UNCHANGED <<ppuCtrl, ppuMask, oam_addr, primary_oam, bus_address,
                               chr_mem, vram, palette_ram, fault>>
         [] addr = \h2006 ->
                /\ t' = AddrBits(t, val, w)
                /\ bus_address' = IF w THEN AddrBits(t, val, w) ELSE bus_address
                /\ w' = ~w
                /\ UNCHANGED <<ppuCtrl, ppuMask, oam_addr, primary_oam,
                               chr_mem, vram, palette_ram, fault>>
         [] addr = \h2007 ->
                /\ WritePpuData(val)
                /\ UNCHANGED <<ppuCtrl, ppuMask, t, oam_addr, primary_oam, w>>
         [] OTHER ->
                /\ fault' = "invalid_register"
                /\ UNCHANGED <<ppuCtrl, ppuMask, t, oam_addr, primary_oam, w, bus_address,
                               chr_mem, vram, palette_ram>>
    /\ op' = [NoOp EXCEPT !.kind = "write_register", !.addr = addr, !.val = val]
    /\ UNCHANGED <<ppuTiming, secondary_oam, is_sprite_0, ppuStatus, read_buffer,
                   mapper_r, cartridge, prg_ram, bus, saved, observers>>

\* Registers::read_ppu_status: the three status flags in bits 7, 6 and 5
PpuStatusByte ==
    (IF v_blank_started THEN 128 ELSE 0) + (IF sprite_0_hit THEN 64 ELSE 0)
        + (IF sprite_overflow THEN 32 ELSE 0)

\* a mutant of PpuDataReturn: the read is not buffered
PpuDataReturnUnbuffered(addr, byte, buffer) == byte

\* the byte a PPUDATA read returns, given the byte at the bus address and the
\* read buffer: mem::swap(&mut ret, &mut self.r.buffer) below the palette
PpuDataReturn(addr, byte, buffer) == IF addr < \h3F00 THEN buffer ELSE byte

\* the read buffer after a PPUDATA read
PpuDataBuffer(addr, byte) == IF addr < \h3F00 THEN byte ELSE ReadByte(addr - \h1000)

ReadRegister(addr) ==
    /\ fault = "none"
    /\ CASE addr \in {\h2000, \h2001, \h2003, \h2005, \h2006} ->
                /\ op' = [NoOp EXCEPT !.kind = "read_register", !.addr = addr,
                                      !.ret = last_written_byte]
                /\ UNCHANGED <<v_blank_started, w, read_buffer, bus_address, fault,
                               vblank_reads>>
         [] addr = \h2002 ->
                /\ op' = [NoOp EXCEPT !.kind = "read_register", !.addr = addr,
                                      !.ret = PpuStatusByte]
                /\ v_blank_started' = FALSE
                /\ w' = FALSE
                /\ vblank_reads' = IF vblank_reads \in 0..1 THEN vblank_reads + 1
                                   ELSE vblank_reads
                /\ UNCHANGED <<read_buffer, bus_address, fault>>
         [] addr = \h2004 ->
                /\ op' = [NoOp EXCEPT !.kind = "read_register", !.addr = addr,
                                      !.ret = MemRead(primary_oam, oam_addr)]
                /\ UNCHANGED <<v_blank_started, w, read_buffer, bus_address, fault,
                               vblank_reads>>
         [] addr = \h2007 ->
                IF ValidPpuAddress(bus_address)
                THEN LET ret == ReadByte(bus_address)
                     IN  /\ op' = [NoOp EXCEPT
                                      !.kind = "read_register", !.addr = addr,
                                      !.val = bus_address,
                                      !.ret = PpuDataReturn(bus_address, ret, read_buffer)]
                         /\ read_buffer' = PpuDataBuffer(bus_address, ret)
                         /\ bus_address' = bus_address + vram_address_increment
                         /\ UNCHANGED <<v_blank_started, w, fault, vblank_reads>>
                ELSE /\ op' = [NoOp EXCEPT !.kind = "read_register", !.addr = addr,
                                           !.val = bus_address]
                     /\ fault' = "invalid_address"
                     /\ UNCHANGED <<v_blank_started, w, read_buffer, bus_address,
                                    vblank_reads>>
         [] OTHER ->
                /\ op' = [NoOp EXCEPT !.kind = "read_register", !.addr = addr]
                /\ fault' = "invalid_register"
                /\ UNCHANGED <<v_blank_started, w, read_buffer, bus_address,
                               vblank_reads>>
    /\ UNCHANGED <<ppuTiming, ppuMemory, sprite_0_hit, sprite_overflow, ppuCtrl, ppuMask,
                   t, last_written_byte, oam_addr, mapperVars, irq_watch>>

-----------------------------------------------------------------------------
(* One dot of the runner: the PPU steps, then the mapper *)

RenderingEnabled == show_sprites \/ show_background

RunnerDot ==
    \E o \in NextDotOutcomes :
    /\ PpuDot(o)
    /\ LET clocked == fault' = "none" /\ IrqClocked(cycle', scanline', RenderingEnabled)
           irq == fault' = "none"
                    /\ MapperStepRaisesIrq(cycle', scanline', RenderingEnabled)
       IN  /\ IF fault' = "none"
              THEN MapperStep(cycle', scanline', RenderingEnabled)
              ELSE UNCHANGED mapperVars
           /\ op' = [NoOp EXCEPT !.kind = "step", !.nmi = StepRaisesNmi, !.irq = irq]
           /\ irq_watch' = IF clocked /\ irq_watch.armed /\ ~irq_watch.fired
                           THEN [irq_watch EXCEPT !.clocks = @ + 1, !.fired = irq]
                           ELSE irq_watch

-----------------------------------------------------------------------------
(* Saved states: MMC3::save_state and MMC3::load_state *)

\* bincode's encoding of a u32 (enum variant indices), little-endian
U32Bytes(n) ==
    <<n % 256, (n \div 256) % 256, (n \div 65536) % 256, (n \div 16777216) % 256>>

U32At(bytes, i) ==
    bytes[i] + 256 * bytes[i + 1] + 65536 * bytes[i + 2] + 16777216 * bytes[i + 3]

BoolByte(b) == IF b THEN 1 ELSE 0

PrgRomBankModes == <<"TwoSwitchTwoFix", "FixTwoSwitchFix">>
ChrRomBankModes == <<"Two2KFour1K", "Four1KTwo2K">>
MirroringModeNames == <<"Horizontal", "Vertical", "Lower", "Upper", "None">>

VariantIndex(names, name) == (CHOOSE i \in DOMAIN names : names[i] = name) - 1

RegistersBlobLen == 26

\* bincode::serialize of Registers: the fields in declaration order, an enum
\* as the u32 index of its variant, a bool as one byte, bank_data as 8 bytes
SerializeRegisters(r) ==
    U32Bytes(MirroringModeNumber(r.mirroring_mode))
        \o U32Bytes(VariantIndex(PrgRomBankModes, r.prg_rom_bank_mode))
        \o U32Bytes(VariantIndex(ChrRomBankModes, r.chr_rom_bank_mode))
        \o <<BoolByte(r.prg_ram_writes_enabled), BoolByte(r.prg_ram_enabled),
             r.irq_latch, r.irq_counter, BoolByte(r.irq_enabled)>>
        \o [i \in 1..8 |-> r.bank_data[i]]
        \o <<r.current_bank>>

\* a mutant of DeserializeRegisters: irq_latch and irq_counter are read in
\* the opposite order
DeserializeRegistersSwapped(bytes) ==
    [ok |-> Len(bytes) >= RegistersBlobLen,
     r |-> IF Len(bytes) >= RegistersBlobLen
           THEN [ mirroring_mode |-> MirroringModeNames[U32At(bytes, 1) + 1],
                  prg_rom_bank_mode |-> PrgRomBankModes[U32At(bytes, 5) + 1],
                  chr_rom_bank_mode |-> ChrRomBankModes[U32At(bytes, 9) + 1],
                  prg_ram_writes_enabled |-> bytes[13] = 1,
                  prg_ram_enabled |-> bytes[14] = 1,
                  irq_latch |-> bytes[16],
                  irq_counter |-> bytes[15],
                  irq_enabled |-> bytes[17] = 1,
                  bank_data |-> [i \in 1..8 |-> bytes[17 + i]],
                  current_bank |-> bytes[26] ]
           ELSE RegistersNew]

\* bincode::deserialize into Registers: fails on a blob that ends early, on an
\* unknown variant index and on a bool byte other than 0 and 1; bytes after
\* the last field are ignored
DeserializeRegisters(bytes) ==
    LET valid == /\ Len(bytes) >= RegistersBlobLen
                 /\ U32At(bytes, 1) < Len(MirroringModeNames)
                 /\ U32At(bytes, 5) < Len(PrgRomBankModes)
                 /\ U32At(bytes, 9) < Len(ChrRomBankModes)
                 /\ \A i \in {13, 14, 17} : bytes[i] \in {0, 1}
    IN  [ok |-> valid,
         r |-> IF valid
               THEN [ mirroring_mode |-> MirroringModeNames[U32At(bytes, 1) + 1],
                      prg_rom_bank_mode |-> PrgRomBankModes[U32At(bytes, 5) + 1],
                      chr_rom_bank_mode |-> ChrRomBankModes[U32At(bytes, 9) + 1],
                      prg_ram_writes_enabled |-> bytes[13] = 1,
                      prg_ram_enabled |-> bytes[14] = 1,
                      irq_latch |-> bytes[15],
                      irq_counter |-> bytes[16],
                      irq_enabled |-> bytes[17] = 1,
                      bank_data |-> [i \in 1..8 |-> bytes[17 + i]],
                      current_bank |-> bytes[26] ]
               ELSE RegistersNew]

\* Cartridge::save_state: the blob holding the cartridge's PRG-RAM
CartridgeSaveState == <<"prg_ram", prg_ram>>

\* a blob Cartridge::load cannot read
CorruptSaveData == <<"corrupt">>

\* Cartridge::load: the PRG-RAM a blob holds, or a failure that leaves the
\* cartridge as it was
CartridgeLoad(save_data) ==
    IF Len(save_data) = 2 /\ save_data[1] = "prg_ram"
    THEN [ok |-> TRUE, prg_ram |-> save_data[2]]
    ELSE [ok |-> FALSE, prg_ram |-> prg_ram]

\* MMC3::save_state: the mapper serialised without its cartridge and its bus,
\* and the cartridge's blob
SaveState ==
    /\ fault = "none"
    /\ saved' = [taken |-> TRUE, mapper_data |-> SerializeRegisters(mapper_r),
                 save_data |-> CartridgeSaveState,
                 r |-> mapper_r, prg_ram |-> prg_ram]
    /\ op' = [NoOp EXCEPT !.kind = "save_state"]
    /\ UNCHANGED <<mapper_r, cartridge, chr_mem, prg_ram, bus, ppuTiming, ppuMemory,
                   ppuStatus, ppuCtrl, ppuMask, ppuPort, fault, observers>>

\* MMC3::load_state: a mapper blob that fails to deserialise returns the error
\* at once; otherwise self is exchanged with the deserialised mapper (its
\* registers, and no bus), the cartridge is exchanged back, and the cartridge
\* loads the second blob, an error there being returned after the exchange.
\* The result is 0 for Ok and 1 for Err; the record of the call notes whether
\* it changed the registers (1) and the PRG-RAM (2).
LoadState(mapper_data, save_data) ==
    LET saved_mapper == DeserializeRegisters(mapper_data)
        loaded == CartridgeLoad(save_data)
    IN  /\ fault = "none"
        /\ IF ~saved_mapper.ok
           THEN /\ UNCHANGED <<mapper_r, prg_ram, bus, irq_watch>>
                /\ op' = [NoOp EXCEPT !.kind = "load_state", !.ret = 1]
           ELSE /\ mapper_r' = saved_mapper.r
                /\ bus' = FALSE
                /\ prg_ram' = loaded.prg_ram
                /\ irq_watch' = [irq_watch EXCEPT !.armed = FALSE]
                /\ op' = [NoOp EXCEPT !.kind = "load_state",
                                      !.ret = IF loaded.ok THEN 0 ELSE 1,
                                      !.val = BoolByte(saved_mapper.r # mapper_r)
                                              + 2 * BoolByte(loaded.prg_ram # prg_ram)]
        /\ UNCHANGED <<cartridge, chr_mem, saved, ppuTiming, ppuMemory, ppuStatus,
                       ppuCtrl, ppuMask, ppuPort, fault, vblank_reads>>

-----------------------------------------------------------------------------
(* Specifications *)

ReadPpuStatus == ReadRegister(\h2002)

\* The PPU stepped, reset and polled by the host.
Init == PowerOn

Next == PpuStep \/ Reset \/ ReadPpuStatus

Spec == Init /\ [][Next]_vars

\* The PPU stepped and polled from power-on, with no register writes.
NextPowerOn == PpuStep \/ ReadPpuStatus

SpecPowerOn == Init /\ [][NextPowerOn]_vars

\* Palette RAM written through write_byte.
PaletteAddresses ==
    { \h3F00, \h3F01, \h3F04, \h3F0C, \h3F10, \h3F11, \h3F14, \h3F1C,
      \h3F20, \h3F30, \h3FE4, \h3FFC }

PaletteValues == { \h15, \h2A }

WritePalette == \E a \in PaletteAddresses, v \in PaletteValues : WriteByte(a, v)

SpecPalette == Init /\ [][WritePalette]_vars

\* The nametables written through write_byte under every mirroring mode a
\* mapper reports: the register holds any mode (load_state restores whatever
\* the blob holds) and the cartridge declares its own; the CPU switches
\* between Vertical and Horizontal at 0xA000.
NametableAddresses ==
    { \h2000, \h2400, \h2800, \h2C00, \h3000, \h3400, \h3800, \h3C00,
      \h22FF, \h3EFF }

NametableValues == { 0, \hAB }

CartridgeModes == { "Vertical", "None" }

InitNametable ==
    /\ PpuNew /\ PpuRegistersNew /\ ObserversNew
    /\ primary_oam = << >>
    /\ \E m \in MirroringModes : mapper_r = [RegistersNew EXCEPT !.mirroring_mode = m]
    /\ bus = TRUE /\ saved = NoBlobs
    /\ \E d \in CartridgeModes : CartridgeNew(d, TRUE, 16)

WriteNametable == \E a \in NametableAddresses, v \in NametableValues : WriteByte(a, v)

WriteMirroring == \E v \in 0..1 : MapperWriteByte(\hA000, v)

NextNametable == WriteNametable \/ WriteMirroring

SpecNametable == InitNametable /\ [][NextNametable]_vars

\* PPU memory accessed through PPUADDR and PPUDATA.
AddrBytes == { \h00, \h01, \h20, \h3F }

DataAddresses == { \h0000, \h2000, \h2001, \h2020, \h3F00, \h3F01 }

DataValues == { \hAB }

WriteCtrlIncrement == \E v \in { \h00, \h04 } : WriteRegister(\h2000, v)

WriteAddr == \E v \in AddrBytes : WriteRegister(\h2006, v)

WriteData ==
    /\ bus_address \in DataAddresses
    /\ \E v \in DataValues : WriteRegister(\h2007, v)

ReadData ==
    /\ bus_address \in DataAddresses
    /\ ReadRegister(\h2007)

NextPpuData == WriteCtrlIncrement \/ WriteAddr \/ WriteData \/ ReadData

SpecPpuData == Init /\ [][NextPpuData]_vars

\* The sprite evaluation over a frame, from a power-on state in which the
\* host has placed `count` sprites on the scanlines from SpriteTop on, the
\* other sprites below the screen, and has chosen the sprite height and
\* which layers render.
SpriteTop == 10

HiddenY == \hF0

SpriteTable(count) ==
    [k \in 0..255 |->
        CASE k % 4 = 0 -> IF k \div 4 < count THEN SpriteTop ELSE HiddenY
          [] k % 4 = 3 -> 16 + 8 * ((k \div 4) % 16)
          [] OTHER -> 0]

\* the values of PPUCTRL (sprite height 8 or 16) and PPUMASK (nothing,
\* the background only, the sprites only)
SpriteSetups == { << \h00, \h00 >>, << \h20, \h08 >>, << \h00, \h10 >> }

InitSprite ==
    \E count \in MinSprites..MaxSprites, setup \in SpriteSetups :
        PowerOnConfigured(SpriteTable(count), setup[1], setup[2])

NextSprite == frame < MaxSpriteFrames /\ PpuStep

SpecSprite == InitSprite /\ [][NextSprite]_vars

\* The IRQ counter: rendering is on from power-on (PPUMASK = 0x08), the
\* runner steps the PPU and the mapper through the first scanlines, and the
\* CPU writes the IRQ registers at the start of a scanline.
IrqAddresses == { \hC000, \hC001, \hE000, \hE001 }

InitIrq == PowerOnConfigured(<< >>, \h00, \h08)

RunIrq == scanline < MaxIrqLines /\ RunnerDot

WriteIrqRegister ==
    /\ cycle = 0
    /\ \E a \in IrqAddresses :
          \E v \in (IF a = \hC000 THEN 0..MaxLatch ELSE {0}) : MapperWriteByte(a, v)

NextIrq == RunIrq \/ WriteIrqRegister

SpecIrq == InitIrq /\ [][NextIrq]_vars

\* Sprite 0 over the background: the host has placed sprite 0 at HitTop, at
\* the left or reaching the last column, and sprite 1 four pixels to its left
\* on the same rows, the other sprites below the screen; both layers render,
\* or one alone.
HitTop == 4

HitColumns == { 50, 250 }

HitTable(x0) ==
    [k \in 0..255 |->
        CASE k \in {0, 4} -> HitTop
          [] k = 3 -> x0
          [] k = 7 -> x0 - 4
          [] k % 4 = 0 -> HiddenY
          [] OTHER -> 0]

HitMaskValues == { \h18, \h10, \h08 }

InitHit ==
    \E x0 \in HitColumns, mask \in HitMaskValues :
        PowerOnConfigured(HitTable(x0), \h00, mask)

NextHit == scanline < MaxHitLines /\ PpuStep

SpecHit == InitHit /\ [][NextHit]_vars

-----------------------------------------------------------------------------
(* Claims about the PPU's timing *)

\* the number of the dot (frame, scanline, cycle) in lexicographic order
Dot == (frame * 262 + scanline) * 341 + cycle

\* C9: cycle stays in [0, 340] and scanline in [0, 261] under any sequence of
\* step() and reset(); each step() advances (frame, scanline, cycle) by one dot
\* in lexicographic order, and frame grows by one exactly on the step that
\* leaves (scanline 261, cycle 340), the last of the frame's 341 * 262 dots.
C9_DotCounter ==
    /\ [](cycle \in 0..340 /\ scanline \in 0..261)
    /\ [][op'.kind = "step" =>
            /\ Dot' = Dot + 1
            /\ frame' = IF scanline = 261 /\ cycle = 340 THEN frame + 1 ELSE frame]_vars

\* a step has just wrapped the frame
C9_Witness == op.kind = "step" /\ frame = 1 /\ scanline = 0 /\ cycle = 0

\* C5: a step() changes v_blank_started only when it reaches (241, 1), where
\* it sets the flag, or (261, 1), where it clears it; both happen whenever a
\* step reaches these dots.
C5_VBlankFlag ==
    [][op'.kind = "step" =>
        /\ (scanline' = 241 /\ cycle' = 1 => v_blank_started')
        /\ (scanline' = 261 /\ cycle' = 1 => ~v_blank_started')
        /\ (~(scanline' = 241 /\ cycle' = 1) /\ ~(scanline' = 261 /\ cycle' = 1)
                => v_blank_started' = v_blank_started)]_vars

\* the step that reaches (261, 1) has cleared a flag no read had cleared
C5_Witness ==
    /\ op.kind = "step" /\ scanline = 261 /\ cycle = 1
    /\ vblank_reads = 0 /\ ~v_blank_started

\* C3 (as claimed): under any sequence of step() and reset(), buffer_index
\* stays at most SCREEN_WIDTH * SCREEN_HEIGHT * 4 = 245760, no pixel is written
\* past the end of the frame buffer, and buffer_index is 0 after a step that
\* starts a new frame.
C3_BufferIndexInBounds ==
    /\ buffer_index <= 245760
    /\ fault # "buffer_index"
    /\ (op.kind = "step" /\ scanline = 0 /\ cycle = 0 => buffer_index = 0)

\* the dots from (241, 1) up to, not including, (261, 1)
InVBlank ==
    \/ scanline = 241 /\ cycle >= 1
    \/ scanline > 241 /\ scanline < 261
    \/ scanline = 261 /\ cycle = 0

\* C6 (as claimed): from power-on with no register writes, a read of 0x2002
\* returns 0x80 if it is the first read since the PPU reached (241, 1), and
\* 0x00 otherwise.
C6_FirstReadAfterVBlank ==
    op.kind = "read_register" /\ op.addr = \h2002 =>
        op.ret = (IF vblank_reads = 1 THEN \h80 ELSE \h00)

\* C6 (amended): from power-on with no register writes, a read of 0x2002
\* returns 0x80 if it is the first read since the PPU reached (241, 1) and the
\* PPU has not yet reached (261, 1), and 0x00 otherwise; the flag is clear
\* after every read.
C6_StatusReads ==
    op.kind = "read_register" /\ op.addr = \h2002 =>
        /\ op.ret = (IF vblank_reads = 1 /\ InVBlank THEN \h80 ELSE \h00)
        /\ ~v_blank_started

\* a read has returned 0x80 and cleared the flag
C6_Witness ==
    /\ op.kind = "read_register" /\ op.addr = \h2002
    /\ op.ret = \h80 /\ ~v_blank_started

-----------------------------------------------------------------------------
(* Claims about PPU memory *)

\* the palette addresses that are multiples of 4
PaletteAligned == { a \in \h3F00..\h3FFF : a % 4 = 0 }

\* C4 (as claimed): read_byte returns the same byte at every palette address
\* that is a multiple of 4, and a write to one of them is read back at all of
\* them.
C4_AlignedAliasOneEntry ==
    /\ \A a, b \in PaletteAligned : ReadByte(a) = ReadByte(b)
    /\ (op.kind = "write_byte" /\ op.addr \in PaletteAligned
            => \A b \in PaletteAligned : ReadByte(b) = op.val)

\* C4 (amended): read_byte returns the same byte at every two palette
\* addresses that are multiples of 4 and congruent modulo 0x10, and a write to
\* one of them is read back at all the addresses congruent to it.
C4_AlignedAliasModulo16 ==
    /\ \A a, b \in PaletteAligned : (a - b) % \h10 = 0 => ReadByte(a) = ReadByte(b)
    /\ (op.kind = "write_byte" /\ op.addr \in PaletteAligned
            => \A b \in PaletteAligned :
                    (b - op.addr) % \h10 = 0 => ReadByte(b) = op.val)

\* a write at 0x3F10 is read back at 0x3F00 and 0x3FF0, and not at 0x3F04
C4_Witness ==
    /\ op.kind = "write_byte" /\ op.addr = \h3F10 /\ op.val = \h15
    /\ ReadByte(\h3F00) = \h15 /\ ReadByte(\h3FF0) = \h15
    /\ ReadByte(\h3F04) # \h15

\* the table of the claim: the physical slot of each logical nametable
ClaimedSlots ==
    [ Horizontal |-> <<0, 0, 1, 1>>,
      Vertical |-> <<0, 1, 0, 1>>,
      Lower |-> <<0, 0, 0, 0>>,
      Upper |-> <<1, 1, 1, 1>>,
      None |-> <<0, 1, 2, 3>> ]

LogicalNametable(a) == ((a - \h2000) % \h1000) \div \h0400

ClaimedAlias(mode, a, b) ==
    /\ a % \h0400 = b % \h0400
    /\ ClaimedSlots[mode][LogicalNametable(a) + 1]
            = ClaimedSlots[mode][LogicalNametable(b) + 1]

\* C8: the table the PPU indexes holds, for each mode, the slots of the
\* claim; and a write_byte to a nametable address is read back at exactly the
\* addresses that have the same offset and the same claimed slot under the
\* mode the mapper reports, every other address reading what it read before.
C8_NametableMirroring ==
    /\ [](\A mode \in MirroringModes, index \in 0..3 :
            MIRRORING_MODE_TABLE[MirroringModeNumber(mode) * 4 + index + 1]
                = ClaimedSlots[mode][index + 1])
    /\ [][op'.kind = "write_byte" =>
            \A b \in NametableAddresses :
                ReadByte(b)' = IF ClaimedAlias(MapperMirroringMode, op'.addr, b)
                               THEN op'.val
                               ELSE ReadByte(b)]_vars

\* under Vertical a write at 0x2000 is read back at 0x2800 and not at 0x2400
C8_Witness ==
    /\ op.kind = "write_byte" /\ op.addr = \h2000 /\ op.val = \hAB
    /\ MapperMirroringMode = "Vertical"
    /\ ReadByte(\h2800) = \hAB /\ ReadByte(\h2400) = 0

\* C7: a PPUDATA read below 0x3F00 returns the read buffer and refills it with
\* the byte at the bus address; a read from 0x3F00 on returns the palette byte
\* and refills the buffer from the bus address minus 0x1000; either advances
\* the bus address by the increment; so a read that follows a read at an
\* address below 0x3F00 returns the byte at that address.
C7_BufferedPpuData ==
    [][op'.kind = "read_register" /\ op'.addr = \h2007 /\ fault' = "none" =>
        /\ op'.ret = IF bus_address < \h3F00 THEN read_buffer ELSE ReadByte(bus_address)
        /\ read_buffer' = IF bus_address < \h3F00 THEN ReadByte(bus_address)
                          ELSE ReadByte(bus_address - \h1000)
        /\ bus_address' = bus_address + vram_address_increment
        /\ (op.kind = "read_register" /\ op.addr = \h2007 /\ op.val < \h3F00
                    /\ bus_address < \h3F00
                => op'.ret = ReadByte(op.val))]_vars

\* 0xAB is at 0x2000 and nowhere else; the read at 0x2001 has returned it
C7_Witness ==
    /\ op.kind = "read_register" /\ op.addr = \h2007
    /\ op.val = \h2001 /\ op.ret = \hAB
    /\ vram_address_increment = 1
    /\ DOMAIN vram = {0} /\ chr_mem = << >> /\ palette_ram = PowerOnPalette
    /\ ReadByte(\h2000) = \hAB

-----------------------------------------------------------------------------
(* Claims about the sprite evaluation *)

\* the sprites whose rows [y + 1, y + height] hold the scanline after s
QualifyingSprites(s) ==
    { i \in 0..63 :
        LET y == MemRead(primary_oam, 4 * i)
        IN  y < 240 /\ y <= s /\ s <= y + sprite_size[2] - 1 }

\* C10: the step that reaches cycle 257 of a visible or pre-render scanline
\* sets sprite_overflow if at least nine sprites qualify and show_sprites or
\* show_background is set, and leaves it unchanged otherwise.
C10_SpriteOverflow ==
    [][op'.kind = "step" /\ cycle' = 257 /\ (scanline' <= 239 \/ scanline' = 261) =>
        sprite_overflow' =
            IF Cardinality(QualifyingSprites(scanline')) >= 9
                    /\ (show_sprites \/ show_background)
            THEN TRUE
            ELSE sprite_overflow]_vars

\* nine sprites qualify, the background alone renders, the flag has been set
C10_Witness ==
    /\ op.kind = "step" /\ cycle = 257 /\ scanline = SpriteTop
    /\ Cardinality(QualifyingSprites(scanline)) = 9
    /\ show_background /\ ~show_sprites
    /\ sprite_overflow

-----------------------------------------------------------------------------
(* Claims about the IRQ counter *)

\* C2 (as claimed): after a write to an odd address in 0xC000-0xDFFF
\* irq_counter is 0, whatever irq_latch holds.
C2_ReloadClearsCounter ==
    op.kind = "mapper_write" /\ IsIrqReload(op.addr) => mapper_r.irq_counter = 0

\* C1 (as claimed, for a latch N of at least 1): with rendering on, the
\* latch untouched since the reload and the IRQ enabled before the first
\* clock, the mapper raises the IRQ at the clock N + 1 after the reload, the
\* cycle 260 of the scanline N + 1, and at no earlier clock.
C1_IrqAfterLatchPlusOne ==
    irq_watch.armed /\ mapper_r.irq_enabled /\ irq_watch.latch >= 1 =>
        IF irq_watch.fired
        THEN irq_watch.clocks = irq_watch.latch + 1
        ELSE irq_watch.clocks < irq_watch.latch + 1

-----------------------------------------------------------------------------
(* Claims about sprite 0 *)

\* C11: a step turns sprite_0_hit from false to true exactly when it draws a
\* pixel at a cycle below 256 where the background pixel is opaque and the
\* sprite pixel is opaque and comes from slot 0 of secondary OAM, holding
\* primary-OAM sprite 0, which qualified for this scanline.
C11_Sprite0Hit ==
    [][op'.kind = "step" =>
        (~sprite_0_hit /\ sprite_0_hit')
            = ( /\ ~sprite_0_hit
                /\ op'.pixel.drawn /\ ~op'.pixel.panics
                /\ cycle' < 256
                /\ op'.pixel.background_on
                /\ op'.pixel.sprite_on
                /\ op'.pixel.slot = 0
                /\ 0 \in QualifyingSprites(scanline' - 1) )]_vars

\* the pixel at x = 50 of the first row of sprite 0 has set the flag
C11_Witness ==
    /\ op.kind = "step" /\ op.pixel.hit /\ op.pixel.slot = 0
    /\ cycle = 51 /\ scanline = HitTop + 1
    /\ sprite_0_hit

-----------------------------------------------------------------------------
(* PRG-ROM banking: bank selects, bank data and reads of 0x8000-0xFFFF *)

PrgBankCounts == {2, 16}
PrgSelects == {\h06, \h07, \h46, \h47}
PrgBankValues(n) == {b \in {0, 1, 4, 15} : b < n}
PrgAddresses == {\h8000, \h9FFF, \hA000, \hBFFF, \hC000, \hDFFF, \hE000, \hFFFF}

InitPrg ==
    \E n \in PrgBankCounts :
        /\ PpuNew /\ PpuRegistersNew /\ MapperRegistersNew /\ ObserversNew
        /\ primary_oam = << >>
        /\ CartridgeNew("Vertical", TRUE, n)

SelectPrgBank == \E v \in PrgSelects : MapperWriteByte(\h8000, v)

WritePrgBank ==
    /\ mapper_r.current_bank \in {6, 7}
    /\ \E v \in PrgBankValues(cartridge.prg_rom_banks) : MapperWriteByte(\h8001, v)

ReadPrg == \E a \in PrgAddresses : MapperReadByte(a)

NextPrg == SelectPrgBank \/ WritePrgBank \/ ReadPrg

SpecPrg == InitPrg /\ [][NextPrg]_vars

\* the bank the claim names for each 8 KiB window
ClaimedPrgBank(addr) ==
    LET L == cartridge.prg_rom_banks
        two_switch == mapper_r.prg_rom_bank_mode = "TwoSwitchTwoFix"
        window == addr \div \h2000
    IN  CASE window = 4 -> IF two_switch THEN mapper_r.bank_data[7] ELSE L - 2
          [] window = 5 -> mapper_r.bank_data[8]
          [] window = 6 -> IF two_switch THEN L - 2 ELSE mapper_r.bank_data[7]
          [] OTHER -> L - 1

\* C12: in both PRG bank modes a read of 0x8000-0xFFFF reads PRG-ROM at offset
\* bank * 0x2000 + (addr mod 0x2000), the bank being bank_data[6],
\* bank_data[7], L-2, L-1 (TwoSwitch-TwoFix) or L-2, bank_data[7],
\* bank_data[6], L-1 (FixTwo-SwitchFix); with L = 16 and bank 4 selected into
\* register 6, 0x8000 reads offset 0x8000 and 0xE000 reads offset 0x1E000.
C12_PrgMapping ==
    op.kind = "mapper_read" /\ op.addr >= \h8000 =>
        /\ op.mem = "prg_rom"
        /\ op.val = ClaimedPrgBank(op.addr) * \h2000 + (op.addr % \h2000)
        /\ op.ret = CartridgeReadPrgRom(op.val)
        /\ cartridge.prg_rom_banks = 16 =>
              /\ op.addr = \hE000 => op.val = \h1E000
              /\ ( /\ op.addr = \h8000
                   /\ mapper_r.prg_rom_bank_mode = "TwoSwitchTwoFix"
                   /\ mapper_r.bank_data[7] = 4 ) => op.val = \h8000

C12_Witness ==
    /\ op.kind = "mapper_read" /\ op.addr = \h8000 /\ op.val = \h8000
    /\ op.ret = 4 * 16
    /\ cartridge.prg_rom_banks = 16
    /\ mapper_r.prg_rom_bank_mode = "TwoSwitchTwoFix"
    /\ mapper_r.current_bank = 6 /\ mapper_r.bank_data[7] = 4

-----------------------------------------------------------------------------
(* CHR banking: bank selects, bank data and reads of 0x0000-0x1FFF *)

ChrSelects == {0, 1, 2, 3, 4, 5, \h80, \h81, \h82, \h83, \h84, \h85}
ChrBankValues == {\hFD}
ChrAddresses ==
    {\h0000, \h03FF, \h0400, \h07FF, \h0800, \h0BFF, \h0C00, \h0FFF,
     \h1000, \h13FF, \h1400, \h17FF, \h1800, \h1BFF, \h1C00, \h1FFF}

SelectChrBank == \E v \in ChrSelects : MapperWriteByte(\h8000, v)

WriteChrBank == \E v \in ChrBankValues : MapperWriteByte(\h8001, v)

ReadChr == \E a \in ChrAddresses : MapperReadByte(a)

NextChr == SelectChrBank \/ WriteChrBank \/ ReadChr

SpecChr == PowerOn /\ [][NextChr]_vars

\* the window the claim places an address in: its base and its selector
ClaimedChrWindow(addr) ==
    LET reg(k) == mapper_r.bank_data[k + 1]
        cleared(k) == (reg(k) \div 2) * 2
        k1 == (addr % \h1000) \div \h400
        k2 == (addr % \h1000) \div \h800
        two_kib == [base |-> (addr \div \h800) * \h800, selector |-> cleared(k2)]
        one_kib == [base |-> (addr \div \h400) * \h400, selector |-> reg(2 + k1)]
    IN  IF mapper_r.chr_rom_bank_mode = "Two2KFour1K"
        THEN (IF addr < \h1000 THEN two_kib ELSE one_kib)
        ELSE (IF addr < \h1000 THEN one_kib ELSE two_kib)

\* C13: in both CHR bank modes an address in 0x0000-0x1FFF is translated to
\* selector * 0x400 + its offset inside its window: 2 KiB windows use
\* bank_data[0] and bank_data[1] with bit 0 cleared, 1 KiB windows use
\* bank_data[2..5], and the bank mode exchanges the two halves.
C13_ChrMapping ==
    op.kind = "mapper_read" /\ op.addr <= \h1FFF =>
        /\ op.mem = "chr"
        /\ op.val = ClaimedChrWindow(op.addr).selector * \h400
                        + (op.addr - ClaimedChrWindow(op.addr).base)

C13_Witness ==
    /\ op.kind = "mapper_read" /\ op.addr = \h17FF
    /\ mapper_r.chr_rom_bank_mode = "Four1KTwo2K"
    /\ mapper_r.bank_data[1] = \hFD /\ mapper_r.bank_data[4] = \hFD
    /\ op.val = \hFC * \h400 + \h7FF

-----------------------------------------------------------------------------
(* Bank selection: bank selects of any value followed by bank-data writes *)

BankSelectValues == {\h00, \h07, \h08, \h09, \h3F, \h47, \h86, \hF8, \hFF}
BankDataValues == {\hAB}

WriteBankSelect == \E v \in BankSelectValues : MapperWriteByte(\h8000, v)

WriteBankData == \E v \in BankDataValues : MapperWriteByte(\h9FFF, v)

NextBankSelect == WriteBankSelect \/ WriteBankData

SpecBankSelect == PowerOn /\ [][NextBankSelect]_vars

\* C20: current_bank stays below 8 under any sequence of CPU writes, so a
\* bank-data write stores into the bank_data slot current_bank names, changes
\* no other slot, and never aborts.
C20_CurrentBankInRange ==
    /\ [](mapper_r.current_bank \in 0..7 /\ fault = "none")
    /\ [][op'.kind = "mapper_write" /\ op'.addr = \h9FFF =>
            /\ mapper_r.current_bank + 1 \in DOMAIN mapper_r.bank_data
            /\ mapper_r' = [mapper_r EXCEPT !.bank_data[mapper_r.current_bank + 1] = op'.val]
         ]_vars

C20_Witness ==
    /\ op.kind = "mapper_write" /\ op.addr = \h9FFF /\ op.val = \hAB
    /\ mapper_r.current_bank = 7
    /\ mapper_r.bank_data[8] = \hAB /\ mapper_r.bank_data[7] = 0
    /\ mapper_r.chr_rom_bank_mode = "Four1KTwo2K"

-----------------------------------------------------------------------------
(* Mirroring: cartridges of each declared mirroring under CPU writes *)

DeclaredMirrorings == {"None", "Horizontal", "Vertical"}
MirroringWriteAddresses == {\hA000, \hBFFE}
MirroringWriteValues == {\h00, \h01, \h02, \hFE, \hFF}
OtherWriteAddresses == {\h6000, \h8001, \hA001, \hC000, \hE001}

InitMirroring ==
    \E m \in DeclaredMirrorings :
        /\ PpuNew /\ PpuRegistersNew /\ MapperRegistersNew /\ ObserversNew
        /\ primary_oam = << >>
        /\ CartridgeNew(m, TRUE, 16)

WriteMirroringRegister ==
    \E a \in MirroringWriteAddresses, v \in MirroringWriteValues : MapperWriteByte(a, v)

WriteOtherRegister == \E a \in OtherWriteAddresses : MapperWriteByte(a, \hFF)

NextMirroring == WriteMirroringRegister \/ WriteOtherRegister

SpecMirroring == InitMirroring /\ [][NextMirroring]_vars

IsMirroringWrite(addr) == addr >= \hA000 /\ addr <= \hBFFF /\ addr % 2 = 0

\* C19: on a four-screen cartridge mirroring_mode() is None after any CPU
\* writes; on any other cartridge it is Vertical or Horizontal, set by bit 0 of
\* each mirroring write (0 = Vertical, 1 = Horizontal) and kept by every other
\* write.
C19_MirroringMode ==
    /\ [](cartridge.mirroring_mode = "None" => MapperMirroringMode = "None")
    /\ [](cartridge.mirroring_mode # "None" =>
            MapperMirroringMode \in {"Vertical", "Horizontal"})
    /\ [][op'.kind = "mapper_write" /\ cartridge.mirroring_mode # "None" =>
            MapperMirroringMode' =
                IF IsMirroringWrite(op'.addr)
                THEN (IF op'.val % 2 = 0 THEN "Vertical" ELSE "Horizontal")
                ELSE MapperMirroringMode]_vars

C19_Witness ==
    /\ cartridge.mirroring_mode = "None"
    /\ op.kind = "mapper_write" /\ op.addr = \hBFFE /\ op.val = \hFF
    /\ mapper_r.mirroring_mode = "Horizontal"
    /\ MapperMirroringMode = "None"

-----------------------------------------------------------------------------
(* PRG-RAM protection: protect writes, and CPU accesses to 0x6000-0x7FFF *)

ProtectAddresses == {\hA001, \hBFFF}
ProtectValues == {\h00, \h3F, \h40, \h80, \hC0}
PrgRamAddresses == {\h6000, \h7FFF}
PrgRamValues == {\h11, \h22}

WriteProtect == \E a \in ProtectAddresses, v \in ProtectValues : MapperWriteByte(a, v)

WritePrgRam == \E a \in PrgRamAddresses, v \in PrgRamValues : MapperWriteByte(a, v)

ReadPrgRam == \E a \in PrgRamAddresses : MapperReadByte(a)

NextPrgRam == WriteProtect \/ WritePrgRam \/ ReadPrgRam

SpecPrgRam == PowerOn /\ [][NextPrgRam]_vars

IsProtectWrite(addr) == addr >= \hA000 /\ addr <= \hBFFF /\ addr % 2 = 1
IsPrgRam(addr) == addr >= \h6000 /\ addr <= \h7FFF

\* the state a mapper access may change, other than the record of the access
MapperState == <<mapperVars, fault>>

\* C18: the two PRG-RAM flags are true until a protect write and after it
\* follow bits 6 (clear: writes enabled) and 7 (set: RAM enabled) of the last
\* protect value; a write to 0x6000-0x7FFF stores its byte iff writes are
\* enabled, a read returns the stored byte if the RAM is enabled and 0
\* otherwise, and a rejected write and any read change no state.
C18_PrgRamProtect ==
    /\ [](op.kind = "none" =>
            mapper_r.prg_ram_writes_enabled /\ mapper_r.prg_ram_enabled)
    /\ [][op'.kind = "mapper_write" =>
            IF IsProtectWrite(op'.addr)
            THEN /\ mapper_r'.prg_ram_writes_enabled = (Bit(op'.val, 6) = 0)
                 /\ mapper_r'.prg_ram_enabled = (Bit(op'.val, 7) = 1)
                 /\ prg_ram' = prg_ram
            ELSE /\ mapper_r'.prg_ram_writes_enabled = mapper_r.prg_ram_writes_enabled
                 /\ mapper_r'.prg_ram_enabled = mapper_r.prg_ram_enabled]_vars
    /\ [][op'.kind = "mapper_write" /\ IsPrgRam(op'.addr) =>
            IF mapper_r.prg_ram_writes_enabled
            THEN /\ MemRead(prg_ram', op'.addr - \h6000) = op'.val
                 /\ \A a \in PrgRamAddresses \ {op'.addr} :
                        MemRead(prg_ram', a - \h6000) = MemRead(prg_ram, a - \h6000)
            ELSE MapperState' = MapperState]_vars
    /\ [][op'.kind = "mapper_read" /\ IsPrgRam(op'.addr) =>
            /\ op'.ret = IF mapper_r.prg_ram_enabled
                         THEN MemRead(prg_ram, op'.addr - \h6000)
                         ELSE 0
            /\ MapperState' = MapperState]_vars

C18_Witness ==
    /\ op.kind = "mapper_read" /\ op.addr = \h7FFF /\ op.ret = 0
    /\ ~mapper_r.prg_ram_enabled /\ ~mapper_r.prg_ram_writes_enabled
    /\ MemRead(prg_ram, \h1FFF) = \h22
    /\ MemRead(prg_ram, 0) = \h11

-----------------------------------------------------------------------------
(* The NMI: the PPU stepped through vertical blanks while the host turns the
   NMI on and off through PPUCTRL at the start of a scanline *)

MaxNmiFrame == 1
NmiCtrlValues == {\h00, \h80}
NmiWriteScanlines == {0, VBlankScanline}

InitNmi == \E ctrl \in NmiCtrlValues : PowerOnConfigured(<< >>, ctrl, \h00)

StepNmi == frame <= MaxNmiFrame /\ PpuStep

WriteCtrlNmi ==
    /\ cycle = 0 /\ scanline \in NmiWriteScanlines
    /\ \E v \in NmiCtrlValues : WriteRegister(\h2000, v)

NextNmi == StepNmi \/ WriteCtrlNmi

SpecNmi == InitNmi /\ [][NextNmi]_vars

-----------------------------------------------------------------------------
(* Claims about interrupts *)

\* C16: a PPU step raises NMI exactly when it reaches (scanline 241, cycle 1)
\* while nmi_enabled is true; no other step and no other operation raises it,
\* so it is raised at most once per frame.
C16_NmiAtVBlank ==
    /\ [](op.nmi => op.kind = "step" /\ scanline = 241 /\ cycle = 1)
    /\ [][op'.kind = "step" =>
            op'.nmi = (scanline' = 241 /\ cycle' = 1 /\ nmi_enabled')]_vars

C16_Witness ==
    /\ op.kind = "step" /\ op.nmi
    /\ scanline = 241 /\ cycle = 1 /\ frame = 0
    /\ nmi_enabled /\ v_blank_started

\* C17: the mapper's step raises IRQ only on a counter clock (cycle 260 of a
\* visible scanline with rendering enabled) that decrements irq_counter from 1
\* to 0 while irq_enabled is true: never while irq_enabled is false, never on a
\* clock that reloads the counter, never on a step that is not a clock.
C17_IrqOnlyOnDecrementToZero ==
    [][op'.kind = "step" /\ op'.irq =>
        /\ cycle' = 260 /\ scanline' < 240 /\ (show_sprites \/ show_background)
        /\ mapper_r.irq_counter = 1 /\ mapper_r'.irq_counter = 0
        /\ mapper_r.irq_enabled /\ mapper_r'.irq_enabled]_vars

C17_Witness ==
    /\ op.kind = "step" /\ op.irq
    /\ cycle = 260 /\ scanline = 2
    /\ mapper_r.irq_counter = 0 /\ mapper_r.irq_latch = 2 /\ mapper_r.irq_enabled

-----------------------------------------------------------------------------
(* Saved states: the host saves, writes registers and PRG-RAM, and loads the
   saved blobs back, intact or damaged *)

\* the host's program: one write to each register and two to PRG-RAM, every
\* one changing a field from its power-on value
StateWrites ==
    << <<\h8000, \hC7>>, <<\h8001, \hAB>>, <<\h6000, \h11>>, <<\hA000, \h01>>,
       <<\hC000, \h05>>, <<\hC001, \h00>>, <<\h7FFF, \h22>>, <<\hE001, \h00>>,
       <<\hA001, \h40>> >>

\* whether the state shows the effect of the i-th write of the program
WriteApplied(i) ==
    CASE i = 1 -> mapper_r.current_bank = 7
      [] i = 2 -> mapper_r.bank_data[8] = \hAB
      [] i = 3 -> MemRead(prg_ram, 0) = \h11
      [] i = 4 -> mapper_r.mirroring_mode = "Horizontal"
      [] i = 5 -> mapper_r.irq_latch = 5
      [] i = 6 -> mapper_r.irq_counter = 5
      [] i = 7 -> MemRead(prg_ram, \h1FFF) = \h22
      [] i = 8 -> mapper_r.irq_enabled
      [] OTHER -> ~mapper_r.prg_ram_enabled

WritesApplied == Cardinality({i \in DOMAIN StateWrites : WriteApplied(i)})

\* a blob cut short, and a blob whose first bool byte is neither 0 nor 1
Truncated(bytes) == SubSeq(bytes, 1, Len(bytes) - 1)
BadBool(bytes) == [bytes EXCEPT ![13] = 2]

MapperBlobs == {saved.mapper_data, Truncated(saved.mapper_data), BadBool(saved.mapper_data)}
SaveBlobs == {saved.save_data, CorruptSaveData}

\* the next write of the program, from wherever the state stands in it
WriteBetween ==
    /\ WritesApplied < Len(StateWrites)
    /\ LET aw == StateWrites[WritesApplied + 1] IN MapperWriteByte(aw[1], aw[2])

LoadSaved ==
    /\ saved.taken
    /\ \E m \in MapperBlobs, c \in SaveBlobs : LoadState(m, c)

NextState == WriteBetween \/ SaveState \/ LoadSaved \/ MapperStepOnBus

SpecState == PowerOn /\ [][NextState]_vars

C15_LoadStateAllOrNothing ==
    [][op'.kind = "load_state" /\ op'.ret = 1 =>
        mapper_r' = mapper_r /\ prg_ram' = prg_ram]_vars

\* C25: a load_state that returns Ok on a mapper with a bus attached leaves the
\* bus attached and the cartridge in place, so no later step() aborts for
\* want of a bus.
C25_BusKeptAfterLoad ==
    /\ [](fault # "no_bus")
    /\ [][op'.kind = "load_state" /\ op'.ret = 0 /\ bus =>
            bus' /\ cartridge' = cartridge]_vars

-----------------------------------------------------------------------------
(* The register file: CPU writes to every register of 0x8000-0xFFFF *)

RegisterWrites ==
    { <<\h8000, \h86>>, <<\h9FFE, \hFF>>, <<\h8001, \hFF>>, <<\h9FFF, \hFF>>,
      <<\hA000, \h00>>, <<\hBFFE, \hFF>>, <<\hA001, \h40>>, <<\hBFFF, \h80>>,
      <<\hC000, \hFF>>, <<\hDFFE, \hFF>>, <<\hC001, \h00>>, <<\hDFFF, \h00>>,
      <<\hE000, \h00>>, <<\hFFFE, \hFF>>, <<\hE001, \h00>>, <<\hFFFF, \hFF>> }

WriteAnyRegister == \E aw \in RegisterWrites : MapperWriteByte(aw[1], aw[2])

FillPrgRam == MapperWriteByte(\h6000, \h33)

NextRegisters == WriteAnyRegister \/ FillPrgRam

SpecRegisters == PowerOn /\ [][NextRegisters]_vars

\* the register fields the claim lets a write to addr change
ClaimedFields(addr) ==
    LET window == addr \div \h2000
        even == addr % 2 = 0
    IN  CASE window = 4 /\ even ->
                {"current_bank", "prg_rom_bank_mode", "chr_rom_bank_mode"}
          [] window = 4 -> {"bank_data"}
          [] window = 5 /\ even -> {"mirroring_mode"}
          [] window = 5 -> {"prg_ram_writes_enabled", "prg_ram_enabled"}
          [] window = 6 /\ even -> {"irq_latch"}
          [] window = 6 -> {"irq_counter"}
          [] OTHER -> {"irq_enabled"}

\* C22: a CPU write to 0x8000-0xFFFF changes only the register fields its
\* 8 KiB range and its parity select; a bank-data write stores the raw value
\* in bank_data[current_bank] and keeps the other seven slots; no cartridge
\* memory changes.
C22_WriteChangesSelectedFields ==
    [][op'.kind = "mapper_write" /\ op'.addr >= \h8000 =>
        /\ \A f \in DOMAIN mapper_r \ ClaimedFields(op'.addr) : mapper_r'[f] = mapper_r[f]
        /\ "bank_data" \in ClaimedFields(op'.addr) =>
              /\ mapper_r'.bank_data[mapper_r.current_bank + 1] = op'.val
              /\ \A k \in 1..8 \ {mapper_r.current_bank + 1} :
                    mapper_r'.bank_data[k] = mapper_r.bank_data[k]
        /\ chr_mem' = chr_mem /\ prg_ram' = prg_ram /\ cartridge' = cartridge]_vars

C22_Witness ==
    /\ op.kind = "mapper_write" /\ op.addr = \hC001
    /\ mapper_r.irq_counter = \hFF /\ mapper_r.irq_latch = \hFF
    /\ mapper_r.irq_enabled
    /\ mapper_r.current_bank = 6 /\ mapper_r.bank_data[7] = \hFF
    /\ mapper_r.bank_data[8] = 0
    /\ MemRead(prg_ram, 0) = \h33

-----------------------------------------------------------------------------
(* Attribute fetches: the host fills the two attribute tables, or leaves them
   zeroed, and the PPU fetches with every VRAM address *)

VramAddresses == 0..32767
AttributeTableAddresses == (\h23C0..\h23FF) \cup (\h27C0..\h27FF)
AttributePattern(a) == 1 + ((a * 7) % 255)

\* write_byte(a, AttributePattern(a)) for every address of the two tables
FillAttributeTables ==
    /\ fault = "none" /\ vram = << >> /\ op.kind = "none"
    /\ vram' = [c \in {NametableCell(a) : a \in AttributeTableAddresses} |->
                  AttributePattern(CHOOSE a \in AttributeTableAddresses :
                                        NametableCell(a) = c)]
    /\ op' = [NoOp EXCEPT !.kind = "write_byte", !.addr = \h27FF,
                          !.val = AttributePattern(\h27FF)]
    /\ UNCHANGED <<mapperVars, ppuTiming, primary_oam, secondary_oam, is_sprite_0,
                   palette_ram, ppuStatus, ppuCtrl, ppuMask, ppuPort, fault, observers>>

\* the fetches take the VRAM addresses in turn, from 0
FetchAttribute ==
    LET v == IF op.kind = "fetch_attribute" THEN op.val + 1 ELSE 0
    IN  v \in VramAddresses /\ FetchAttributeTableByte(v)

NextAttribute == FillAttributeTables \/ FetchAttribute

SpecAttribute == PowerOn /\ [][NextAttribute]_vars

\* the claim's address, 0x23C0 | (v & 0x0C00) | ((v >> 4) & 0x38) | ((v >> 2) & 0x07)
CanonicalAttributeAddress(v) ==
    BitOr(BitOr(BitOr(\h23C0, BitAnd(v, \h0C00)), BitAnd(ShiftRight(v, 4), \h38)),
          BitAnd(ShiftRight(v, 2), \h07))

\* the claim's shift: bit 1 of coarse X and bit 1 of coarse Y pick the quadrant
ClaimedAttributeShift(v) == 2 * Bit(v, 1) + 4 * Bit(v, 6)

\* C23: for every 15-bit v, fetch_attribute_table_byte reads the canonical
\* attribute address and selects the palette
\* (attribute byte >> ((v & 0x02) | ((v & 0x40) >> 4))) & 0x03.
C23_AttributeFetch ==
    op.kind = "fetch_attribute" =>
        /\ op.addr = CanonicalAttributeAddress(op.val)
        /\ op.ret = (ReadByte(CanonicalAttributeAddress(op.val))
                        \div (2 ^ ClaimedAttributeShift(op.val))) % 4

C23_Witness ==
    /\ op.kind = "fetch_attribute" /\ op.val = \h0BFF
    /\ op.addr = \h2BFF /\ op.ret = 3
    /\ ReadByte(\h2BFF) = \hF6

-----------------------------------------------------------------------------
(* The top of the PPU address space: PPUADDR writes, and PPUDATA accesses at
   the last addresses, with either stride *)

TopAddrBytes == {\h3F, \hE0, \hFF}
TopReadFloor == \h3FC0
TopWriteFloor == \h3FFE

WriteTopAddr == \E v \in TopAddrBytes : WriteRegister(\h2006, v)

WriteTopData == bus_address >= TopWriteFloor /\ WriteRegister(\h2007, \h2A)

ReadTopData == bus_address >= TopReadFloor /\ ReadRegister(\h2007)

NextPpuAddr == WriteCtrlIncrement \/ WriteTopAddr \/ WriteTopData \/ ReadTopData

SpecPpuAddr == Init /\ [][NextPpuAddr]_vars

\* C24: after any PPUADDR writes and PPUDATA accesses the address of the next
\* PPUDATA access is in 0x0000-0x3FFF, and no access reaches the
\* invalid-memory-address abort of read_byte / write_byte.
C24_BusAddressInRange ==
    /\ bus_address \in 0..\h3FFF
    /\ fault # "invalid_address"

-----------------------------------------------------------------------------
(* Sprite rows: the PPU stepped and reset from power-on while the host, at
   the start of a scanline, changes the sprite size and the mask and writes
   the first sprite's bytes *)

MaxRowLines == 1
RowMaskValues == {\h00, \h10, \h14}
RowCtrlValues == {\h00, \h20}
RowOamValues == {\h00, \h80}

StepRows == scanline < MaxRowLines /\ PpuStep

WriteMaskRows == cycle = 0 /\ \E v \in RowMaskValues : WriteRegister(\h2001, v)

WriteCtrlRows == cycle = 0 /\ \E v \in RowCtrlValues : WriteRegister(\h2000, v)

WriteOamRows ==
    /\ cycle = 0 /\ oam_addr < 2
    /\ \E v \in RowOamValues : WriteRegister(\h2004, v)

NextRows == StepRows \/ Reset \/ WriteMaskRows \/ WriteCtrlRows \/ WriteOamRows

SpecRows == Init /\ [][NextRows]_vars

\* C26: whenever a step's compute_sprite_pixel reaches the row computation
\* for a slot of secondary OAM on a visible dot, the row offset
\* py = scanline - (slot Y + 1) satisfies 0 <= py < sprite height.
C26_SpriteRowInRange ==
    [][op'.kind = "step" /\ op'.pixel.drawn /\ op'.pixel.slot < 8 =>
        LET py == scanline' - SpriteY(op'.pixel.slot)
        IN  0 <= py /\ py < sprite_size[2]]_vars

-----------------------------------------------------------------------------
(* The scanline clock over a whole frame: the PPU powers on with rendering
   off, with the background only or with the sprites only; the host sets the
   IRQ latch and enables the IRQ, then the runner steps the PPU and the
   mapper through the frame *)

MaxClockFrame == 1
ClockLatch == 2
ClockMasks == {\h00, \h08, \h10}

InitClock == \E mask \in ClockMasks : PowerOnConfigured(<< >>, \h00, mask)

WriteClockLatch == op.kind = "none" /\ MapperWriteByte(\hC000, ClockLatch)

WriteClockEnable ==
    /\ op.kind = "mapper_write" /\ ~mapper_r.irq_enabled
    /\ MapperWriteByte(\hE001, 0)

RunClock == mapper_r.irq_enabled /\ frame < MaxClockFrame /\ RunnerDot

NextClock == WriteClockLatch \/ WriteClockEnable \/ RunClock

SpecClock == InitClock /\ [][NextClock]_vars

\* the scanlines 0-239 of the run whose cycle 260 has been stepped
ScanlinesClocked ==
    240 * frame + (IF scanline >= 240 THEN 240
                   ELSE scanline + (IF cycle >= 260 THEN 1 ELSE 0))

\* the counter after k clocks, from 0 with the latch set
CounterAfterClocks(k) ==
    IF k = 0 THEN 0 ELSE ClockLatch - ((k - 1) % (ClockLatch + 1))

\* C21: with the mapper stepped once after each PPU step, the IRQ counter
\* has been clocked exactly once for every scanline 0-239 whose cycle 260
\* has passed with show_sprites or show_background set, and not at all with
\* rendering disabled; a mapper step changes mapper state or raises the IRQ
\* only at cycle 260 of a scanline 0-239 with rendering enabled.
C21_ClockedOncePerScanline ==
    /\ [](mapper_r.irq_enabled =>
            mapper_r.irq_counter =
                CounterAfterClocks(IF show_sprites \/ show_background
                                   THEN ScanlinesClocked ELSE 0))
    /\ [][op'.kind = "step" =>
            /\ (mapper_r' # mapper_r \/ op'.irq) =>
                  /\ cycle' = 260 /\ scanline' <= 239
                  /\ (show_sprites \/ show_background)
            /\ UNCHANGED <<cartridge, chr_mem, prg_ram, bus>>]_vars

C21_Witness ==
    /\ op.kind = "step" /\ op.irq
    /\ scanline = 239 /\ cycle = 260 /\ show_sprites /\ ~show_background
    /\ mapper_r.irq_counter = 0

====
